---- MODULE Spec2Model ----
(***************************************************************************)
(* Model of the market monitoring engine of crypto-trading-analyzer:       *)
(* PriceMonitor (src/src/monitors/PriceMonitor.ts), the two cron jobs of   *)
(* TradingAnalyzer (src/src/index.ts) that drive it, and the parts of      *)
(* ExchangeManager (src/unnamed/part_000) it calls.                        *)
(*                                                                         *)
(* JavaScript runs one callback at a time, so an action is the code that   *)
(* runs between two awaits: an async method is a small process whose pc    *)
(* names the await it is suspended on.  Arrays and alert objects are       *)
(* shared by reference in the code, so they live in heaps here.            *)
(***************************************************************************)
EXTENDS Integers, Sequences, FiniteSets, TLC

(***************************************************************************)
(* Bounds of the model                                                     *)
(***************************************************************************)
\* Date.now() readings are 0..MaxClock
MaxClock == 1
\* alert objects ever created by setPriceAlert
MaxAlerts == 2
\* candle timestamps are 1..MaxTs
MaxTs == 4
\* stands for the history cap, 1000 at PriceMonitor.ts:128-129
HistoryCap == 3
\* stands for the backfill limit, 100 at PriceMonitor.ts:60
BackfillLimit == 2
\* interval timers that may be live at once
MaxTimers == 2

(***************************************************************************)
(* Fixed sets                                                              *)
(***************************************************************************)
\* the symbols the callers may name; the first is watched from construction
AllSymbols == {"BTC/USDT", "ETH/USDT"}
InitialWatched == <<"BTC/USDT">>
Exchanges == {"binance", "okx"}
AlertTypes == {"above", "below"}
\* updatePrices runs that may overlap (a cron run, an interval run)
Ticks == {1, 2}
Starters == {1, 2}
Backfills == {1}
TimerIds == 1..MaxTimers
ArrRefs == 1..(Cardinality(AllSymbols) + Cardinality(Ticks))
ClockValues == 0..MaxClock
TsValues == 1..MaxTs
IndicatorSymbols == <<"BTC/USDT", "ETH/USDT", "BNB/USDT">>

(***************************************************************************)
(* Values                                                                  *)
(***************************************************************************)
\* a Map with no entry
EmptyMap == [x \in {} |-> 0]
MapSet(m, k, v) == [x \in (DOMAIN m) \cup {k} |-> IF x = k THEN v ELSE m[x]]
MapDelete(m, k) == [x \in (DOMAIN m) \ {k} |-> m[x]]
MapHas(m, k) == k \in DOMAIN m

\* a failed quote (prices[name] = null) and a successful one
NullQuote == [null |-> TRUE]
Quote(p) == [price |-> p]
IsNull(q) == "null" \in DOMAIN q

Candle(ts, close) == [ts |-> ts, close |-> close]

Min(a, b) == IF a < b THEN a ELSE b
Max(a, b) == IF a > b THEN a ELSE b
Last(s) == s[Len(s)]
\* Array.prototype.slice(-n) for n >= 1
SliceLast(s, n) == IF Len(s) <= n THEN s ELSE SubSeq(s, Len(s) - n + 1, Len(s))
\* Array.prototype.slice(0, n)
SliceFirst(s, n) == IF Len(s) <= n THEN s ELSE SubSeq(s, 1, n)
\* Array.prototype.indexOf, 1-based, 0 when absent
IndexOf(s, x) ==
    IF \E k \in 1..Len(s) : s[k] = x
    THEN CHOOSE k \in 1..Len(s) : s[k] = x /\ \A m \in 1..(k - 1) : s[m] # x
    ELSE 0
\* Array.prototype.splice(k, 1) with k 1-based
RemoveAt(s, k) == SubSeq(s, 1, k - 1) \o SubSeq(s, k + 1, Len(s))
SeqToSet(s) == {s[k] : k \in 1..Len(s)}

VARIABLES
    watchedSymbols,      \* PriceMonitor.watchedSymbols
    priceAlerts,         \* PriceMonitor.priceAlerts: symbol -> array reference
    arrays,              \* heap of alert arrays: reference -> sequence of alert objects
    alertObjs,           \* heap of PriceAlert objects, in creation order
    priceHistory,        \* PriceMonitor.priceHistory: symbol -> candles
    isRunning,           \* PriceMonitor.isRunning
    monitoringInterval,  \* PriceMonitor.monitoringInterval: a timer id, 0 for null
    liveTimers,          \* interval timers set and not cleared
    now,                 \* the reading of Date.now()
    ticks,               \* the updatePrices runs
    starts,              \* the start() calls
    backfills,           \* the initializePriceHistory runs of addWatchedSymbol
    indTick,             \* the calculateIndicators run
    emits,               \* the events the last step emitted, in order
    alertLog,            \* the id of every price_alert event emitted so far
    stopped,             \* stop() has returned and start() was not called since
    lastOp               \* what the last step fetched or returned, where a caller sees it

vars == <<watchedSymbols, priceAlerts, arrays, alertObjs, priceHistory, isRunning,
          monitoringInterval, liveTimers, now, ticks, starts, backfills, indTick,
          emits, alertLog, stopped, lastOp>>

alertVars == <<priceAlerts, arrays, alertObjs, alertLog>>
lifeVars == <<isRunning, monitoringInterval, liveTimers, stopped>>

(***************************************************************************)
(* Processes                                                               *)
(***************************************************************************)
\* an updatePrices run that is not in progress
IdleTick ==
    [pc |-> "idle", src |-> "none", i |-> 0, sym |-> "none", prices |-> EmptyMap,
     updates |-> EmptyMap, alerts |-> 0, j |-> 0, opps |-> <<>>, atStop |-> FALSE]
IdleStart == [pc |-> "idle", i |-> 0, sym |-> "none"]
IdleBackfill == [pc |-> "idle", i |-> 0, sym |-> "none", added |-> "none"]
IdleInd == [pc |-> "idle", i |-> 0]
NoOp == [op |-> "none"]

Init ==
    /\ watchedSymbols = InitialWatched
    /\ priceAlerts = EmptyMap
    /\ arrays = [r \in ArrRefs |-> <<>>]
    /\ alertObjs = <<>>
    /\ priceHistory = EmptyMap
    /\ isRunning = FALSE
    /\ monitoringInterval = 0
    /\ liveTimers = {}
    /\ now = 0
    /\ ticks = [t \in Ticks |-> IdleTick]
    /\ starts = [p \in Starters |-> IdleStart]
    /\ backfills = [b \in Backfills |-> IdleBackfill]
    /\ indTick = IdleInd
    /\ emits = <<>>
    /\ alertLog = <<>>
    /\ stopped = FALSE
    /\ lastOp = NoOp

(***************************************************************************)
(* The heap of alert arrays                                                *)
(***************************************************************************)
\* the arrays the Map or a suspended checkPriceAlerts refers to
UsedRefs(pa, tks) ==
    ({pa[s] : s \in DOMAIN pa} \cup {tks[t].alerts : t \in Ticks}) \ {0}
\* a fresh array: the least reference nothing refers to
NewRef(used) == CHOOSE r \in ArrRefs \ used : \A q \in ArrRefs \ used : r <= q
\* arrays nothing refers to are garbage
Collect(arr, used) == [r \in ArrRefs |-> IF r \in used THEN arr[r] ELSE <<>>]

(***************************************************************************)
(* setPriceAlert / removePriceAlert                                        *)
(***************************************************************************)
\* `${symbol}_${type}_${targetPrice}_${Date.now()}`
AlertId(symbol, type, targetPrice, clock) == <<symbol, type, targetPrice, clock>>

setPriceAlert(symbol, targetPrice, type, callback) ==
    /\ Len(alertObjs) < MaxAlerts
    /\ LET alertId == AlertId(symbol, type, targetPrice, now)
           alert == [id |-> alertId, symbol |-> symbol, targetPrice |-> targetPrice,
                     type |-> type, callback |-> callback, triggered |-> FALSE]
           key == Len(alertObjs) + 1
           has == MapHas(priceAlerts, symbol)
           ref == IF has THEN priceAlerts[symbol]
                  ELSE NewRef(UsedRefs(priceAlerts, ticks))
       IN /\ alertObjs' = Append(alertObjs, alert)
          /\ priceAlerts' = IF has THEN priceAlerts ELSE MapSet(priceAlerts, symbol, ref)
          /\ arrays' = [arrays EXCEPT ![ref] = Append(@, key)]
          /\ lastOp' = NoOp
    /\ emits' = <<>>
    /\ UNCHANGED <<watchedSymbols, priceHistory, lifeVars, now, ticks, starts,
                   backfills, indTick, alertLog>>

\* alerts.findIndex(alert => alert.id === alertId), 1-based, 0 for -1
FindIndexById(arr, alertId) ==
    IF \E k \in 1..Len(arr) : alertObjs[arr[k]].id = alertId
    THEN CHOOSE k \in 1..Len(arr) :
            /\ alertObjs[arr[k]].id = alertId
            /\ \A m \in 1..(k - 1) : alertObjs[arr[m]].id # alertId
    ELSE 0

\* The loop over the Map's entries stops at the first list holding the id.  An id
\* starts with its symbol and a list only holds alerts of its own symbol, so at
\* most one list holds it and the Map's order does not matter.
removePriceAlert(alertId) ==
    LET holders == {s \in DOMAIN priceAlerts :
                        FindIndexById(arrays[priceAlerts[s]], alertId) # 0}
    IN /\ IF holders # {}
          THEN LET s == CHOOSE x \in holders : TRUE
                   ref == priceAlerts[s]
                   index == FindIndexById(arrays[ref], alertId)
               IN arrays' = [arrays EXCEPT ![ref] = RemoveAt(@, index)]
          ELSE arrays' = arrays
       /\ emits' = <<>>
       /\ lastOp' = [op |-> "removePriceAlert", alertId |-> alertId,
                     returned |-> holders # {}]
       /\ UNCHANGED <<watchedSymbols, priceAlerts, alertObjs, priceHistory, lifeVars,
                      now, ticks, starts, backfills, indTick, alertLog>>

(***************************************************************************)
(* checkPriceAlerts                                                        *)
(***************************************************************************)
\* const currentPrice = prices.binance?.price; if (!currentPrice) continue;
\* undefined (no quote) and 0 are the falsy values
HasCurrentPrice(prices) ==
    /\ MapHas(prices, "binance")
    /\ ~IsNull(prices["binance"])
    /\ prices["binance"].price # 0
CurrentPrice(prices) == prices["binance"].price

ShouldTrigger(alert, currentPrice) ==
    \/ alert.type = "above" /\ currentPrice >= alert.targetPrice
    \/ alert.type = "below" /\ currentPrice <= alert.targetPrice

PriceAlertEvent(alert, currentPrice) ==
    [event |-> "price_alert", id |-> alert.id, symbol |-> alert.symbol,
     currentPrice |-> currentPrice, targetPrice |-> alert.targetPrice,
     type |-> alert.type]

\* The for-of loop over the array arr from position j on, run up to the first
\* awaited callback or to the end of the array.
RECURSIVE CheckLoop(_, _, _, _)
CheckLoop(objs, arr, j, prices) ==
    IF j > Len(arr)
    THEN [objs |-> objs, j |-> j, ev |-> <<>>, awaiting |-> FALSE]
    ELSE LET alert == objs[arr[j]]
         IN IF alert.triggered \/ ~HasCurrentPrice(prices)
            THEN CheckLoop(objs, arr, j + 1, prices)
            ELSE IF ShouldTrigger(alert, CurrentPrice(prices))
            THEN LET fired == [objs EXCEPT ![arr[j]].triggered = TRUE]
                     event == PriceAlertEvent(alert, CurrentPrice(prices))
                 IN IF alert.callback
                    THEN [objs |-> fired, j |-> j, ev |-> <<event>>, awaiting |-> TRUE]
                    ELSE LET rest == CheckLoop(fired, arr, j + 1, prices)
                         IN [rest EXCEPT !.ev = <<event>> \o @]
            ELSE CheckLoop(objs, arr, j + 1, prices)

\* a filter that drops nothing
FilterKeepsTriggered(objs, arr) == arr
\* alerts.filter(alert => !alert.triggered)
RECURSIVE FilterUntriggered(_, _)
FilterUntriggered(objs, arr) ==
    IF arr = <<>> THEN <<>>
    ELSE (IF objs[Head(arr)].triggered THEN <<>> ELSE <<Head(arr)>>)
         \o FilterUntriggered(objs, Tail(arr))

EventIds(ev) == [k \in 1..Len(ev) |-> ev[k].id]

(***************************************************************************)
(* updatePriceHistory / initializePriceHistory: the candle series          *)
(***************************************************************************)
\* a comparison that also takes the bar of the same minute for a new one
IsNewerOrSame(newCandle, lastCandle) == newCandle.ts >= lastCandle.ts
\* newCandle[0] > lastCandle[0]
IsNewer(newCandle, lastCandle) == newCandle.ts > lastCandle.ts
\* newCandle[0] === lastCandle[0]
IsSameBar(newCandle, lastCandle) == newCandle.ts = lastCandle.ts
\* a cap that keeps the oldest candles: slice(0, 1000)
CapKeepsOldest(history) == SliceFirst(history, HistoryCap)
\* if (history.length > 1000) history = history.slice(-1000)
CapHistory(history) ==
    IF Len(history) > HistoryCap THEN SliceLast(history, HistoryCap) ELSE history
\* a push where the assignment should be
ReplaceByPush(history, newCandle) == Append(history, newCandle)
\* history[history.length - 1] = newCandle
ReplaceLast(history, newCandle) == [history EXCEPT ![Len(history)] = newCandle]

\* The series of symbol after the fetch of the latest candle returned
\* latestCandle (a sequence of at most one candle); hist is the Map.
UpdateHistory(hist, symbol, latestCandle) ==
    IF Len(latestCandle) > 0
    THEN LET history == IF MapHas(hist, symbol) THEN hist[symbol] ELSE <<>>
             newCandle == latestCandle[1]
         IN IF history = <<>> \/ IsNewer(newCandle, Last(history))
            THEN MapSet(hist, symbol, CapHistory(Append(history, newCandle)))
            ELSE IF IsSameBar(newCandle, Last(history))
            THEN MapSet(hist, symbol, ReplaceLast(history, newCandle))
            ELSE hist
    ELSE hist

\* the length of the stored series and its last timestamp, 0 when there is none
SeriesLength(hist, symbol) == IF MapHas(hist, symbol) THEN Len(hist[symbol]) ELSE 0
LastTimestamp(hist, symbol) ==
    IF MapHas(hist, symbol) /\ hist[symbol] # <<>> THEN Last(hist[symbol]).ts ELSE 0

\* this.priceHistory.set(symbol, ohlcv)
SetBackfill(hist, symbol, ohlcv) == MapSet(hist, symbol, ohlcv)

(***************************************************************************)
(* ExchangeManager.calculateArbitrageOpportunities                         *)
(***************************************************************************)
\* the exchanges of initialize(), in the order it creates them
ExchangeOrder == <<"binance", "okx">>
\* a percentage is kept in thousandths, the precision of toFixed(3)
PercentMilli(p1, p2) ==
    LET diff == IF p1 > p2 THEN p1 - p2 ELSE p2 - p1
    IN (diff * 400000 + (p1 + p2)) \div (2 * (p1 + p2))
\* percentage > 0.1 with percentage = priceDiff / avgPrice * 100 (0 / 0 is NaN)
AboveMinProfit(p1, p2) ==
    LET diff == IF p1 > p2 THEN p1 - p2 ELSE p2 - p1
    IN p1 + p2 > 0 /\ diff * 2000 > p1 + p2
Opportunity(symbol, e1, p1, e2, p2) ==
    [symbol |-> symbol,
     buyExchange |-> IF p1 < p2 THEN e1 ELSE e2,
     sellExchange |-> IF p1 < p2 THEN e2 ELSE e1,
     buyPrice |-> Min(p1, p2), sellPrice |-> Max(p1, p2),
     priceDifference |-> Max(p1, p2) - Min(p1, p2),
     percentage |-> PercentMilli(p1, p2)]
\* Object.entries(prices).filter(([, data]) => data !== null)
ValidPrices(prices) ==
    SelectSeq(ExchangeOrder, LAMBDA e : MapHas(prices, e) /\ ~IsNull(prices[e]))
\* the pairs (i, j), i < j, in the order of the two nested loops, from (i, j) on
RECURSIVE PairLoop(_, _, _, _, _)
PairLoop(symbol, prices, valid, i, j) ==
    IF i > Len(valid) THEN <<>>
    ELSE IF j > Len(valid) THEN PairLoop(symbol, prices, valid, i + 1, i + 2)
    ELSE LET p1 == prices[valid[i]].price
             p2 == prices[valid[j]].price
         IN (IF AboveMinProfit(p1, p2)
             THEN <<Opportunity(symbol, valid[i], p1, valid[j], p2)>>
             ELSE <<>>)
            \o PairLoop(symbol, prices, valid, i, j + 1)
\* opportunities.sort((a, b) => parseFloat(b.percentage) - parseFloat(a.percentage)):
\* a stable sort, descending
RECURSIVE InsertDesc(_, _)
InsertDesc(sorted, o) ==
    IF sorted = <<>> THEN <<o>>
    ELSE IF Head(sorted).percentage >= o.percentage
    THEN <<Head(sorted)>> \o InsertDesc(Tail(sorted), o)
    ELSE <<o>> \o sorted
RECURSIVE SortDesc(_)
SortDesc(opps) ==
    IF opps = <<>> THEN <<>>
    ELSE InsertDesc(SortDesc(SubSeq(opps, 1, Len(opps) - 1)), Last(opps))
CalculateArbitrageOpportunities(symbol, prices) ==
    SortDesc(PairLoop(symbol, prices, ValidPrices(prices), 1, 2))

(***************************************************************************)
(* updatePrices: the code between its awaits                               *)
(***************************************************************************)
ValidExchanges(snapshot) == {e \in DOMAIN snapshot : ~IsNull(snapshot[e])}
KeepsNullEntries(updates) == updates
\* lines 95-106: the null entries and the symbols left with no entry are dropped
FilteredPrices(updates) ==
    [s \in {x \in DOMAIN updates : ValidExchanges(updates[x]) # {}} |->
        [e \in ValidExchanges(updates[s]) |-> updates[s][e]]]

\* broadcastArbitrageOpportunities after its loop: lines 155-160
ArbitrageEvents(opps) ==
    IF Len(opps) > 0
    THEN <<[event |-> "arbitrage_opportunities", opportunities |-> SliceFirst(opps, 10)]>>
    ELSE <<>>

\* lines 94-113 up to the first await of broadcastArbitrageOpportunities
EmitAndBroadcast(tk) ==
    LET update == [event |-> "price_update", prices |-> FilteredPrices(tk.updates)]
    IN IF Len(watchedSymbols) > 0
       THEN [tk |-> [tk EXCEPT !.pc = "arb", !.i = 1, !.sym = watchedSymbols[1],
                               !.prices = EmptyMap, !.updates = EmptyMap],
             ev |-> <<update>>]
       ELSE [tk |-> IdleTick, ev |-> <<update>>]

\* The next turn of the loop of line 80; the iterator indexes the live array.
AfterSymbol(tk) ==
    IF tk.i < Len(watchedSymbols)
    THEN [tk |-> [tk EXCEPT !.pc = "prices", !.i = tk.i + 1,
                            !.sym = watchedSymbols[tk.i + 1], !.prices = EmptyMap],
          ev |-> <<>>]
    ELSE EmitAndBroadcast(tk)

\* checkPriceAlerts on the array ref from position j on, for the run t whose
\* record is tk0, and what follows it in updatePrices when the loop ends.
CheckFrom(t, tk0, ref, j) ==
    LET r == CheckLoop(alertObjs, arrays[ref], j, tk0.prices)
    IN /\ alertObjs' = r.objs
       /\ alertLog' = alertLog \o EventIds(r.ev)
       /\ IF r.awaiting
          THEN /\ ticks' = [ticks EXCEPT ![t] =
                               [tk0 EXCEPT !.pc = "callback", !.alerts = ref, !.j = r.j]]
               /\ UNCHANGED <<priceAlerts, arrays>>
               /\ emits' = r.ev
          ELSE LET others == UsedRefs(MapDelete(priceAlerts, tk0.sym),
                                      [ticks EXCEPT ![t] = IdleTick])
                   new == NewRef(others)
                   g == AfterSymbol([tk0 EXCEPT !.alerts = 0, !.j = 0])
               IN /\ priceAlerts' = MapSet(priceAlerts, tk0.sym, new)
                  /\ arrays' = Collect([arrays EXCEPT ![new] =
                                           FilterUntriggered(r.objs, arrays[ref])],
                                       others \cup {new})
                  /\ ticks' = [ticks EXCEPT ![t] = g.tk]
                  /\ emits' = r.ev \o g.ev

\* updatePrices is called: by the cron job of index.ts:189-197, or by the interval
\* callback of startRealTimeMonitoring, which looks at isRunning first
TickStart(t, src) ==
    /\ ticks[t].pc = "idle"
    /\ src = "interval" => (liveTimers # {} /\ isRunning)
    /\ LET g == AfterSymbol([IdleTick EXCEPT !.src = src])
       IN /\ ticks' = [ticks EXCEPT ![t] = g.tk]
          /\ emits' = g.ev
    /\ lastOp' = NoOp
    /\ UNCHANGED <<watchedSymbols, alertVars, priceHistory, lifeVars, now, starts,
                   backfills, indTick>>

\* getMultiExchangePrices(symbol) returns; updatePriceHistory asks for the candle
PricesReturn(t, snapshot) ==
    /\ ticks[t].pc = "prices"
    /\ ticks' = [ticks EXCEPT ![t].pc = "candle", ![t].prices = snapshot,
                              ![t].updates = MapSet(@, ticks[t].sym, snapshot)]
    /\ emits' = <<>>
    /\ lastOp' = NoOp
    /\ UNCHANGED <<watchedSymbols, alertVars, priceHistory, lifeVars, now, starts,
                   backfills, indTick>>

\* getOHLCV(binance, symbol, 1m, 1) returns or throws; the rest of
\* updatePriceHistory, then checkPriceAlerts up to its first await
CandleReturn(t, fetched) ==
    /\ ticks[t].pc = "candle"
    /\ LET tk == ticks[t]
       IN /\ priceHistory' = IF fetched.ok
                             THEN UpdateHistory(priceHistory, tk.sym, fetched.candles)
                             ELSE priceHistory
          /\ lastOp' = [op |-> "updatePriceHistory", symbol |-> tk.sym,
                        fetched |-> fetched,
                        had |-> SeriesLength(priceHistory, tk.sym),
                        hadLast |-> LastTimestamp(priceHistory, tk.sym)]
          /\ IF MapHas(priceAlerts, tk.sym) /\ Len(arrays[priceAlerts[tk.sym]]) > 0
             THEN CheckFrom(t, tk, priceAlerts[tk.sym], 1)
             ELSE LET g == AfterSymbol(tk)
                  IN /\ ticks' = [ticks EXCEPT ![t] = g.tk]
                     /\ emits' = g.ev
                     /\ UNCHANGED alertVars
    /\ UNCHANGED <<watchedSymbols, lifeVars, now, starts, backfills, indTick>>

\* the awaited alert.callback settles (a rejection is caught and logged)
CallbackReturn(t) ==
    /\ ticks[t].pc = "callback"
    /\ CheckFrom(t, ticks[t], ticks[t].alerts, ticks[t].j + 1)
    /\ lastOp' = NoOp
    /\ UNCHANGED <<watchedSymbols, priceHistory, lifeVars, now, starts, backfills,
                   indTick>>

\* calculateArbitrageOpportunities(symbol) returns: it fetched the snapshot itself
ArbitrageReturn(t, snapshot) ==
    /\ ticks[t].pc = "arb"
    /\ LET tk == ticks[t]
           opps == tk.opps \o CalculateArbitrageOpportunities(tk.sym, snapshot)
       IN IF tk.i < Len(watchedSymbols)
          THEN /\ ticks' = [ticks EXCEPT ![t].i = tk.i + 1,
                                         ![t].sym = watchedSymbols[tk.i + 1],
                                         ![t].opps = opps]
               /\ emits' = <<>>
          ELSE /\ ticks' = [ticks EXCEPT ![t] = IdleTick]
               /\ emits' = ArbitrageEvents(opps)
    /\ lastOp' = NoOp
    /\ UNCHANGED <<watchedSymbols, alertVars, priceHistory, lifeVars, now, starts,
                   backfills, indTick>>

(***************************************************************************)
(* start / stop / initializePriceHistory / startRealTimeMonitoring         *)
(***************************************************************************)
FetchFailed == [ok |-> FALSE]
FetchOk(candles) == [ok |-> TRUE, candles |-> candles]

\* setInterval returns a timer that is not live yet
NewTimer == CHOOSE id \in TimerIds \ liveTimers : \A q \in TimerIds \ liveTimers : id <= q
InFlight(procs) == {p \in DOMAIN procs : procs[p].pc # "idle"}

\* start() up to its first await; an already running monitor returns at once
StartCall(p) ==
    /\ starts[p].pc = "idle"
    /\ IF isRunning
       THEN starts' = starts
       ELSE /\ Cardinality(liveTimers) + Cardinality(InFlight(starts)) < MaxTimers
            /\ starts' = [starts EXCEPT ![p].pc = "init"]
    /\ stopped' = FALSE
    /\ emits' = <<>>
    /\ lastOp' = NoOp
    /\ UNCHANGED <<watchedSymbols, alertVars, priceHistory, isRunning,
                   monitoringInterval, liveTimers, now, ticks, backfills, indTick>>

\* startRealTimeMonitoring and the return of start()
StartMonitoring(p) ==
    /\ monitoringInterval' = NewTimer
    /\ liveTimers' = liveTimers \cup {NewTimer}
    /\ starts' = [starts EXCEPT ![p] = IdleStart]

\* exchangeManager.initialize() returns or throws; initializePriceHistory
\* starts with the first watched symbol
InitializeReturn(p, ok) ==
    /\ starts[p].pc = "init"
    /\ IF ok
       THEN /\ isRunning' = TRUE
            /\ IF Len(watchedSymbols) > 0
               THEN /\ starts' = [starts EXCEPT ![p] =
                                    [pc |-> "backfill", i |-> 1, sym |-> watchedSymbols[1]]]
                    /\ UNCHANGED <<monitoringInterval, liveTimers>>
               ELSE StartMonitoring(p)
       ELSE /\ starts' = [starts EXCEPT ![p] = IdleStart]
            /\ UNCHANGED <<isRunning, monitoringInterval, liveTimers>>
    /\ emits' = <<>>
    /\ lastOp' = NoOp
    /\ UNCHANGED <<watchedSymbols, alertVars, priceHistory, stopped, now, ticks,
                   backfills, indTick>>

\* getOHLCV(binance, symbol, 1m, 100) returns or throws in the
\* initializePriceHistory of start()
StartBackfillReturn(p, fetched) ==
    /\ starts[p].pc = "backfill"
    /\ priceHistory' = IF fetched.ok
                       THEN SetBackfill(priceHistory, starts[p].sym, fetched.candles)
                       ELSE priceHistory
    /\ IF starts[p].i < Len(watchedSymbols)
       THEN /\ starts' = [starts EXCEPT ![p].i = @ + 1,
                                        ![p].sym = watchedSymbols[starts[p].i + 1]]
            /\ UNCHANGED <<monitoringInterval, liveTimers>>
       ELSE StartMonitoring(p)
    /\ emits' = <<>>
    /\ lastOp' = [op |-> "initializePriceHistory", by |-> "start",
                  symbol |-> starts[p].sym, added |-> "none", fetched |-> fetched]
    /\ UNCHANGED <<watchedSymbols, alertVars, isRunning, stopped, now, ticks,
                   backfills, indTick>>

\* stop(): the timer is cleared, the field keeps its value
Stop ==
    /\ isRunning' = FALSE
    /\ liveTimers' = liveTimers \ {monitoringInterval}
    /\ stopped' = TRUE
    /\ ticks' = [t \in Ticks |-> IF ticks[t].pc # "idle"
                                 THEN [ticks[t] EXCEPT !.atStop = TRUE]
                                 ELSE ticks[t]]
    /\ emits' = <<>>
    /\ lastOp' = NoOp
    /\ UNCHANGED <<watchedSymbols, alertVars, priceHistory, monitoringInterval, now,
                   starts, backfills, indTick>>

(***************************************************************************)
(* addWatchedSymbol / removeWatchedSymbol                                  *)
(***************************************************************************)
\* The backfill it starts runs over every watched symbol, up to its first await.
addWatchedSymbol(symbol) ==
    /\ IF symbol \notin SeqToSet(watchedSymbols)
       THEN /\ InFlight(backfills) # Backfills
            /\ LET b == CHOOSE x \in Backfills : backfills[x].pc = "idle"
                   watched == Append(watchedSymbols, symbol)
               IN /\ watchedSymbols' = watched
                  /\ backfills' = [backfills EXCEPT ![b] =
                                      [pc |-> "backfill", i |-> 1, sym |-> watched[1],
                                       added |-> symbol]]
       ELSE UNCHANGED <<watchedSymbols, backfills>>
    /\ emits' = <<>>
    /\ lastOp' = NoOp
    /\ UNCHANGED <<alertVars, priceHistory, lifeVars, now, ticks, starts, indTick>>

\* getOHLCV returns or throws in a backfill started by addWatchedSymbol
AddBackfillReturn(b, fetched) ==
    /\ backfills[b].pc = "backfill"
    /\ priceHistory' = IF fetched.ok
                       THEN SetBackfill(priceHistory, backfills[b].sym, fetched.candles)
                       ELSE priceHistory
    /\ backfills' = IF backfills[b].i < Len(watchedSymbols)
                    THEN [backfills EXCEPT ![b].i = @ + 1,
                                           ![b].sym = watchedSymbols[backfills[b].i + 1]]
                    ELSE [backfills EXCEPT ![b] = IdleBackfill]
    /\ emits' = <<>>
    /\ lastOp' = [op |-> "initializePriceHistory", by |-> "addWatchedSymbol",
                  symbol |-> backfills[b].sym, added |-> backfills[b].added,
                  fetched |-> fetched]
    /\ UNCHANGED <<watchedSymbols, alertVars, lifeVars, now, ticks, starts, indTick>>

removeWatchedSymbol(symbol) ==
    /\ LET index == IndexOf(watchedSymbols, symbol)
       IN IF index # 0
          THEN LET alerts == MapDelete(priceAlerts, symbol)
               IN /\ watchedSymbols' = RemoveAt(watchedSymbols, index)
                  /\ priceHistory' = MapDelete(priceHistory, symbol)
                  /\ priceAlerts' = alerts
                  /\ arrays' = Collect(arrays, UsedRefs(alerts, ticks))
          ELSE UNCHANGED <<watchedSymbols, priceHistory, priceAlerts, arrays>>
    /\ emits' = <<>>
    /\ lastOp' = NoOp
    /\ UNCHANGED <<alertObjs, alertLog, lifeVars, now, ticks, starts, backfills,
                   indTick>>

(***************************************************************************)
(* The clock, and the indicator cron job of index.ts                       *)
(***************************************************************************)
ClockAdvance ==
    /\ now < MaxClock
    /\ now' = now + 1
    /\ emits' = <<>>
    /\ lastOp' = NoOp
    /\ UNCHANGED <<watchedSymbols, alertVars, priceHistory, lifeVars, ticks, starts,
                   backfills, indTick>>

\* calculateIndicators is called by the cron job of index.ts:199-212
IndicatorStart ==
    /\ indTick.pc = "idle"
    /\ indTick' = [pc |-> "fetch", i |-> 1]
    /\ emits' = <<>>
    /\ lastOp' = NoOp
    /\ UNCHANGED <<watchedSymbols, alertVars, priceHistory, lifeVars, now, ticks,
                   starts, backfills>>

\* getOHLCV(binance, symbol, 1h, 100) returns candles, returns none or throws
IndicatorReturn(outcome) ==
    /\ indTick.pc = "fetch"
    /\ emits' = IF outcome = "candles"
                THEN <<[event |-> "indicators_update",
                        symbol |-> IndicatorSymbols[indTick.i]]>>
                ELSE <<>>
    /\ indTick' = IF indTick.i < Len(IndicatorSymbols)
                  THEN [indTick EXCEPT !.i = @ + 1]
                  ELSE IdleInd
    /\ lastOp' = NoOp
    /\ UNCHANGED <<watchedSymbols, alertVars, priceHistory, lifeVars, now, ticks,
                   starts, backfills>>

(***************************************************************************)
(* Inputs                                                                  *)
(***************************************************************************)
\* prices a ticker may report; 0 is the last price of a pair that never traded
QuotePrices == {0, 1, 2}
AlertTargets == {1}
\* the symbol whose alert list the overlapping runs share
AlertSymbols == {"BTC/USDT"}
Closes == {1, 2}
Quotes == {NullQuote} \cup {Quote(p) : p \in QuotePrices}
\* a snapshot where only binance may answer
BinanceOnly(q) == [e \in Exchanges |-> IF e = "binance" THEN q ELSE NullQuote]
BinanceSnapshots == {BinanceOnly(q) : q \in Quotes}
NoQuotes == [e \in Exchanges |-> NullQuote]
\* an id no alert has
UnknownId == AlertId("BTC/USDT", "above", 0, 0)
KnownIds == {alertObjs[k].id : k \in 1..Len(alertObjs)}

(***************************************************************************)
(* The alert registry under overlapping updatePrices runs                  *)
(***************************************************************************)
NextAlerts ==
    \/ \E s \in AlertSymbols, target \in AlertTargets, type \in AlertTypes,
          cb \in BOOLEAN : setPriceAlert(s, target, type, cb)
    \/ \E id \in KnownIds \cup {UnknownId} : removePriceAlert(id)
    \/ \E t \in Ticks : TickStart(t, "cron")
    \/ \E t \in Ticks, snapshot \in BinanceSnapshots : PricesReturn(t, snapshot)
    \/ \E t \in Ticks : CandleReturn(t, FetchFailed)
    \/ \E t \in Ticks : CallbackReturn(t)
    \/ \E t \in Ticks : ArbitrageReturn(t, NoQuotes)
    \/ \E s \in AlertSymbols : addWatchedSymbol(s)
    \/ \E b \in Backfills : AddBackfillReturn(b, FetchFailed)
    \/ \E s \in AlertSymbols : removeWatchedSymbol(s)
    \/ ClockAdvance

SpecAlerts == Init /\ [][NextAlerts]_vars

(***************************************************************************)
(* Claims about the alert registry                                         *)
(***************************************************************************)
\* the alert objects an active list holds
StoredAlerts == UNION {SeqToSet(arrays[priceAlerts[s]]) : s \in DOMAIN priceAlerts}
StoredAlertsNext == UNION {SeqToSet(arrays'[priceAlerts'[s]]) : s \in DOMAIN priceAlerts'}
\* the run t executes code of checkPriceAlerts in this step
CheckStep(t) ==
    /\ ticks[t].pc \in {"candle", "callback"}
    /\ <<ticks[t].pc, ticks[t].i, ticks[t].j>> # <<ticks'[t].pc, ticks'[t].i, ticks'[t].j>>
\* ... and the call returns in this step
CheckCompletes(t) == CheckStep(t) /\ ticks'[t].pc # "callback"

\* C1: at most one price_alert event is ever emitted for an alert id.
C1_AtMostOneEventPerId ==
    \A a, b \in 1..Len(alertLog) : alertLog[a] = alertLog[b] => a = b

\* C2: when a checkPriceAlerts(symbol) call completes, the stored list of the
\* symbol holds no triggered alert; and no step resets a triggered alert or puts
\* it back into an active list.
C2_TriggeredIsTerminal ==
    [][/\ \A t \in Ticks :
             (CheckCompletes(t) /\ MapHas(priceAlerts', ticks[t].sym)) =>
                \A k \in SeqToSet(arrays'[priceAlerts'[ticks[t].sym]]) :
                    ~alertObjs'[k].triggered
       /\ \A k \in 1..Len(alertObjs) :
             alertObjs[k].triggered =>
                /\ alertObjs'[k].triggered
                /\ k \notin StoredAlerts => k \notin StoredAlertsNext]_vars

\* C2 witness: a check has completed after an alert fired; the fired alert is
\* out of the active list while another alert is still active.
C2_Witness ==
    /\ \A t \in Ticks : ticks[t].pc = "idle"
    /\ \E k \in 1..Len(alertObjs) : alertObjs[k].triggered /\ k \notin StoredAlerts
    /\ \E k \in StoredAlerts : ~alertObjs[k].triggered

\* what the claim C3 says decides the firing of an alert: a quote of the
\* reference exchange and the comparison with the target
ClaimedToFire(alert, prices) ==
    /\ ~IsNull(prices["binance"])
    /\ \/ alert.type = "above" /\ prices["binance"].price >= alert.targetPrice
       \/ alert.type = "below" /\ prices["binance"].price <= alert.targetPrice

\* C3: an active alert that checkPriceAlerts examines fires (is marked triggered
\* and has its event emitted) if and only if binance has a quote and the quote
\* meets the target; otherwise it is left as it is, in the active list.
C3_FiresIffQuoteMeetsTarget ==
    [][\A t \in Ticks :
          CheckStep(t) =>
             LET tk == ticks[t]
                 ref == IF tk.pc = "candle"
                        THEN (IF MapHas(priceAlerts, tk.sym) THEN priceAlerts[tk.sym] ELSE 0)
                        ELSE tk.alerts
                 arr == IF ref = 0 THEN <<>> ELSE arrays[ref]
                 first == IF tk.pc = "candle" THEN 1 ELSE tk.j + 1
                 last == IF ticks'[t].pc = "callback" THEN ticks'[t].j ELSE Len(arr)
             IN \A j \in first..last :
                   LET k == arr[j]
                       fired == /\ alertObjs'[k].triggered
                                /\ \E e \in 1..Len(emits') :
                                      /\ emits'[e].event = "price_alert"
                                      /\ emits'[e].id = alertObjs[k].id
                   IN ~alertObjs[k].triggered =>
                         IF ClaimedToFire(alertObjs[k], tk.prices)
                         THEN fired
                         ELSE /\ alertObjs'[k] = alertObjs[k]
                              /\ ticks'[t].pc # "callback" => k \in StoredAlertsNext]_vars

(***************************************************************************)
(* The candle series under overlapping runs, backfills and removals        *)
(***************************************************************************)
Candles == {Candle(ts, close) : ts \in TsValues, close \in Closes}
\* what getOHLCV(..., 1) may give: an error, no candle, one candle
LatestCandleResults == {FetchFailed, FetchOk(<<>>)} \cup {FetchOk(<<c>>) : c \in Candles}
StrictlyIncreasing(series) ==
    \A a, b \in 1..Len(series) : a < b => series[a].ts < series[b].ts
\* what getOHLCV(..., 100) may give: an error, or at most the limit of candles,
\* oldest first
BackfillSeries ==
    {series \in UNION {[1..n -> Candles] : n \in 0..BackfillLimit} :
        StrictlyIncreasing(series)}
BackfillResults == {FetchFailed} \cup {FetchOk(series) : series \in BackfillSeries}

\* the symbol whose series the overlapping runs and backfills share
SeriesSymbols == {"BTC/USDT"}

NextHistory ==
    \/ \E t \in Ticks : TickStart(t, "cron")
    \/ \E t \in Ticks : PricesReturn(t, NoQuotes)
    \/ \E t \in Ticks, fetched \in LatestCandleResults : CandleReturn(t, fetched)
    \/ \E t \in Ticks : ArbitrageReturn(t, NoQuotes)
    \/ \E s \in SeriesSymbols : addWatchedSymbol(s)
    \/ \E b \in Backfills, fetched \in BackfillResults : AddBackfillReturn(b, fetched)
    \/ \E s \in SeriesSymbols : removeWatchedSymbol(s)

SpecHistory == Init /\ [][NextHistory]_vars

(***************************************************************************)
(* Claims about the candle series                                          *)
(***************************************************************************)
\* the last step was the rest of updatePriceHistory with one fetched candle
AppliedCandle ==
    /\ lastOp.op = "updatePriceHistory"
    /\ lastOp.fetched.ok
    /\ Len(lastOp.fetched.candles) > 0
\* the same of the step being taken
AppliesCandle ==
    /\ lastOp'.op = "updatePriceHistory"
    /\ lastOp'.fetched.ok
    /\ Len(lastOp'.fetched.candles) > 0
SeriesOf(hist, symbol) == IF MapHas(hist, symbol) THEN hist[symbol] ELSE <<>>

\* C4: no series is ever longer than the cap, and an append to a full series
\* drops exactly the oldest candle and keeps the order of the others.
C4_SeriesCapped ==
    [][/\ \A s \in DOMAIN priceHistory' : Len(priceHistory'[s]) <= HistoryCap
       /\ AppliesCandle =>
             LET h == SeriesOf(priceHistory, lastOp'.symbol)
                 c == lastOp'.fetched.candles[1]
             IN (Len(h) = HistoryCap /\ c.ts > Last(h).ts) =>
                   priceHistory'[lastOp'.symbol] = Tail(h) \o <<c>>]_vars

\* C4 witness: a candle was appended to a series that was at the cap.
C4_Witness ==
    /\ AppliedCandle
    /\ lastOp.had = HistoryCap
    /\ lastOp.hadLast < lastOp.fetched.candles[1].ts
    /\ Len(priceHistory[lastOp.symbol]) = HistoryCap
    /\ Last(priceHistory[lastOp.symbol]) = lastOp.fetched.candles[1]

\* C5: every stored series has strictly increasing timestamps (so no duplicate),
\* the backfills given by the data source being strictly increasing.
C5_StrictlyIncreasingSeries ==
    \A s \in DOMAIN priceHistory : StrictlyIncreasing(priceHistory[s])

\* C5 witness: while one run still waits for its candle, another run's fetch
\* completed with a candle older than the last stored one.
C5_Witness ==
    /\ AppliedCandle
    /\ MapHas(priceHistory, lastOp.symbol)
    /\ Len(priceHistory[lastOp.symbol]) >= 2
    /\ lastOp.fetched.candles[1].ts < Last(priceHistory[lastOp.symbol]).ts
    /\ \E t \in Ticks : ticks[t].pc = "candle"

\* C6: a fetched candle c meets a non-empty series with last candle l in one of
\* three ways: c.ts > l.ts appends c, c.ts = l.ts replaces the last element and
\* nothing else, c.ts < l.ts leaves the series as it is.
C6_AppendReplaceOrDiscard ==
    [][AppliesCandle =>
          LET h == SeriesOf(priceHistory, lastOp'.symbol)
              h2 == SeriesOf(priceHistory', lastOp'.symbol)
              c == lastOp'.fetched.candles[1]
          IN h # <<>> =>
                /\ c.ts > Last(h).ts =>
                      /\ Len(h2) = Min(Len(h) + 1, HistoryCap)
                      /\ Last(h2) = c
                      /\ \A k \in 1..(Len(h2) - 1) : h2[k] = h[Len(h) - (Len(h2) - 1) + k]
                /\ c.ts = Last(h).ts =>
                      /\ Len(h2) = Len(h)
                      /\ Last(h2) = c
                      /\ \A k \in 1..(Len(h) - 1) : h2[k] = h[k]
                /\ c.ts < Last(h).ts => h2 = h]_vars

\* C6 witness: the candle of the current bar replaced the last element of a
\* series of two or more candles.
C6_Witness ==
    /\ AppliedCandle
    /\ lastOp.had >= 2
    /\ lastOp.hadLast = lastOp.fetched.candles[1].ts
    /\ Len(priceHistory[lastOp.symbol]) = lastOp.had
    /\ Last(priceHistory[lastOp.symbol]) = lastOp.fetched.candles[1]

(***************************************************************************)
(* start, stop and the two cron jobs                                       *)
(***************************************************************************)
\* a snapshot where the two exchanges disagree by more than the minimum profit
SpreadQuotes == [e \in Exchanges |-> IF e = "binance" THEN Quote(1) ELSE Quote(2)]
LifecycleSnapshots == {NoQuotes, SpreadQuotes}
LifecycleCandles == {FetchFailed, FetchOk(<<Candle(2, 1)>>)}
LifecycleBackfills == {FetchFailed, FetchOk(<<Candle(1, 1)>>)}

NextLifecycle ==
    \/ \E p \in Starters : StartCall(p)
    \/ \E p \in Starters, ok \in BOOLEAN : InitializeReturn(p, ok)
    \/ \E p \in Starters, fetched \in LifecycleBackfills : StartBackfillReturn(p, fetched)
    \/ Stop
    \/ \E t \in Ticks, src \in {"cron", "interval"} : TickStart(t, src)
    \/ \E t \in Ticks, snapshot \in LifecycleSnapshots : PricesReturn(t, snapshot)
    \/ \E t \in Ticks, fetched \in LifecycleCandles : CandleReturn(t, fetched)
    \/ \E t \in Ticks, snapshot \in LifecycleSnapshots : ArbitrageReturn(t, snapshot)
    \/ IndicatorStart
    \/ \E outcome \in {"candles", "none"} : IndicatorReturn(outcome)

SpecLifecycle == Init /\ [][NextLifecycle]_vars

(***************************************************************************)
(* Claims about start and stop                                             *)
(***************************************************************************)
\* an updatePrices run starts in the step being taken
QuoteTickStarts == \E t \in Ticks : ticks[t].pc = "idle" /\ ticks'[t].pc # "idle"
\* a calculateIndicators run starts in the step being taken
IndicatorTickStarts == indTick.pc = "idle" /\ indTick'.pc # "idle"

\* C7: once stop() has returned and until start() is called again, no
\* updatePrices run and no calculateIndicators run starts.
C7_NoTickStartsAfterStop ==
    [][stopped => ~QuoteTickStarts /\ ~IndicatorTickStarts]_vars

\* the run t was suspended on a fetch when stop() was called, and resumes in the
\* step being taken
ResumesAfterStop(t) == ticks[t].atStop /\ ticks'[t] # ticks[t]

\* C8: a run that was suspended on a fetch when stop() was called changes no
\* candle series and no alert list and emits no event when its fetch completes,
\* as long as start() has not been called again.
C8_ResultDiscardedAfterStop ==
    [][\A t \in Ticks :
          stopped /\ ResumesAfterStop(t) =>
              /\ priceHistory' = priceHistory
              /\ priceAlerts' = priceAlerts
              /\ arrays' = arrays
              /\ emits' = <<>>]_vars

\* a start() has not finished its backfill
StartBackfilling == \E p \in Starters : starts[p].pc \in {"init", "backfill"}

\* C9: the monitor is Running only when no backfill of start() is pending, and
\* no updatePrices run reads or changes a candle series while a start() has not
\* finished its backfill.
C9_BackfillBeforeRunning ==
    [][/\ isRunning' => \A p \in Starters : starts'[p].pc # "backfill"
       /\ StartBackfilling => lastOp'.op # "updatePriceHistory"]_vars

(***************************************************************************)
(* Adding and removing watched symbols                                     *)
(***************************************************************************)
\* what the backfill of a symbol may give at two different times
SymbolBackfills ==
    {FetchFailed, FetchOk(<<Candle(1, 1)>>), FetchOk(<<Candle(1, 1), Candle(2, 1)>>)}

NextSymbols ==
    \/ \E s \in AllSymbols : addWatchedSymbol(s)
    \/ \E b \in Backfills, fetched \in SymbolBackfills : AddBackfillReturn(b, fetched)
    \/ \E s \in AllSymbols : removeWatchedSymbol(s)
    \/ \E s \in AllSymbols : setPriceAlert(s, 1, "above", FALSE)
    \/ TickStart(1, "cron")
    \/ PricesReturn(1, NoQuotes)
    \/ CandleReturn(1, FetchOk(<<Candle(3, 1)>>))
    \/ ArbitrageReturn(1, NoQuotes)

SpecSymbols == Init /\ [][NextSymbols]_vars

(***************************************************************************)
(* Claims about the watched symbols                                        *)
(***************************************************************************)
\* the active alert list of a symbol
AlertListOf(pa, arr, symbol) == IF MapHas(pa, symbol) THEN arr[pa[symbol]] ELSE <<>>
\* the symbol an addWatchedSymbol or removeWatchedSymbol step adds or removes
ChangedSymbols ==
    (SeqToSet(watchedSymbols) \ SeqToSet(watchedSymbols'))
        \cup (SeqToSet(watchedSymbols') \ SeqToSet(watchedSymbols))
\* the step being taken is a step of the backfill addWatchedSymbol started
AddBackfillStep ==
    /\ backfills' # backfills
    /\ lastOp'.op = "initializePriceHistory"
    /\ lastOp'.by = "addWatchedSymbol"
SameSeriesAndAlerts(t) ==
    /\ MapHas(priceHistory', t) = MapHas(priceHistory, t)
    /\ SeriesOf(priceHistory', t) = SeriesOf(priceHistory, t)
    /\ AlertListOf(priceAlerts', arrays', t) = AlertListOf(priceAlerts, arrays, t)

\* C10: addWatchedSymbol(s) and removeWatchedSymbol(s), and the backfill that
\* addWatchedSymbol(s) starts, leave the candle series and the active alert list
\* of every watched symbol other than s as they were.
C10_OtherSymbolsUntouched ==
    [][/\ watchedSymbols' # watchedSymbols =>
             \A t \in SeqToSet(watchedSymbols) \ ChangedSymbols : SameSeriesAndAlerts(t)
       /\ AddBackfillStep =>
             \A t \in SeqToSet(watchedSymbols) \ {lastOp'.added} : SameSeriesAndAlerts(t)]_vars

(***************************************************************************)
(* ExchangeManager.getMultiExchangePrices from the outcome of each ticker  *)
(***************************************************************************)
\* getTicker(name, symbol) rejects, or resolves with a ticker whose last is given
TickerFailed == [ok |-> FALSE]
TickerOk(last) == [ok |-> TRUE, last |-> last]
FailedAsZero(tickers) ==
    [e \in DOMAIN tickers |-> IF tickers[e].ok THEN Quote(tickers[e].last) ELSE Quote(0)]
\* .then stores {price: ticker.last, ...}, .catch stores null
GetMultiExchangePrices(tickers) ==
    [e \in DOMAIN tickers |-> IF tickers[e].ok THEN Quote(tickers[e].last) ELSE NullQuote]

\* getMultiExchangePrices(symbol) returns after every getTicker has settled;
\* updatePriceHistory asks for the candle
TickersReturn(t, tickers) ==
    /\ ticks[t].pc = "prices"
    /\ LET snapshot == GetMultiExchangePrices(tickers)
       IN ticks' = [ticks EXCEPT ![t].pc = "candle", ![t].prices = snapshot,
                                 ![t].updates = MapSet(@, ticks[t].sym, snapshot)]
    /\ emits' = <<>>
    /\ lastOp' = [op |-> "getMultiExchangePrices", run |-> t, symbol |-> ticks[t].sym,
                  tickers |-> tickers]
    /\ UNCHANGED <<watchedSymbols, alertVars, priceHistory, lifeVars, now, starts,
                   backfills, indTick>>

(***************************************************************************)
(* A quote tick whose fetches fail in any combination                      *)
(***************************************************************************)
TickerLasts == {1, 2}
TickerOutcomes == {TickerFailed} \cup {TickerOk(last) : last \in TickerLasts}
TickerResults == [Exchanges -> TickerOutcomes]
QuoteCandles == {FetchFailed, FetchOk(<<Candle(1, 1)>>)}

\* one run of updatePrices over one or two watched symbols
NextQuotes ==
    \/ \E s \in AllSymbols : addWatchedSymbol(s)
    \/ \E b \in Backfills : AddBackfillReturn(b, FetchFailed)
    \/ \E s \in AllSymbols : setPriceAlert(s, 1, "above", FALSE)
    \/ TickStart(1, "cron")
    \/ \E tickers \in TickerResults : TickersReturn(1, tickers)
    \/ \E fetched \in QuoteCandles : CandleReturn(1, fetched)
    \/ ArbitrageReturn(1, NoQuotes)

SpecQuotes == Init /\ [][NextQuotes]_vars

(***************************************************************************)
(* Claims about a quote tick with failing fetches                          *)
(***************************************************************************)
\* the price_update events among the events of a step
PriceUpdates(ev) == SelectSeq(ev, LAMBDA e : e.event = "price_update")
\* the run t leaves the loop over the watched symbols in the step being taken
LeavesSymbolLoop(t) ==
    /\ ticks[t].pc \in {"candle", "callback"}
    /\ ticks'[t].pc \in {"arb", "idle"}
\* the run t finishes a symbol that is not the last one in the step being taken
FinishesSymbol(t) ==
    /\ ticks[t].pc = "candle"
    /\ ticks'[t] # ticks[t]
    /\ ticks'[t].pc # "callback"
\* the stored alerts of the symbol that fire at these prices
DueAlerts(symbol, prices) ==
    {k \in StoredAlerts :
        /\ alertObjs[k].symbol = symbol
        /\ ~alertObjs[k].triggered
        /\ HasCurrentPrice(prices)
        /\ ShouldTrigger(alertObjs[k], CurrentPrice(prices))}

\* C11: whatever fetches fail in a quote tick, a failed ticker is stored as no
\* quote, the run goes on to the next watched symbol after each symbol, checks
\* the alerts of each symbol, has fetched every watched symbol when it leaves
\* the loop, and emits price_update exactly once, when it leaves the loop.
C11_TickSurvivesFailures ==
    [][/\ lastOp'.op = "getMultiExchangePrices" =>
             \A e \in Exchanges :
                 ~lastOp'.tickers[e].ok =>
                     IsNull(ticks'[lastOp'.run].updates[lastOp'.symbol][e])
       /\ \A t \in Ticks :
             /\ FinishesSymbol(t) =>
                   /\ \A k \in DueAlerts(ticks[t].sym, ticks[t].prices) :
                          alertObjs'[k].triggered
                   /\ ticks[t].i < Len(watchedSymbols) =>
                          /\ ticks'[t].pc = "prices"
                          /\ ticks'[t].sym = watchedSymbols[ticks[t].i + 1]
             /\ LeavesSymbolLoop(t) =>
                   /\ Len(PriceUpdates(emits')) = 1
                   /\ SeqToSet(watchedSymbols) \subseteq DOMAIN ticks[t].updates
       /\ (\A t \in Ticks : ~LeavesSymbolLoop(t)) => PriceUpdates(emits') = <<>>]_vars

\* C11 witness: a run over two symbols emitted its price_update after every
\* fetch of the first symbol had failed and the candle of the second was stored.
C11_Witness ==
    /\ Len(watchedSymbols) = 2
    /\ Len(PriceUpdates(emits)) = 1
    /\ watchedSymbols[1] \notin DOMAIN PriceUpdates(emits)[1].prices
    /\ watchedSymbols[2] \in DOMAIN PriceUpdates(emits)[1].prices
    /\ ~MapHas(priceHistory, watchedSymbols[1])
    /\ lastOp.op = "updatePriceHistory"
    /\ lastOp.symbol = watchedSymbols[2]
    /\ lastOp.fetched.ok

(***************************************************************************)
(* A ticker fetch that never settles                                       *)
(***************************************************************************)
\* exchange.fetchTicker never settles for some exchange: Promise.all of
\* getMultiExchangePrices never resolves and nothing resumes the run
TickerHangs(t) ==
    /\ ticks[t].pc = "prices"
    /\ ticks' = [ticks EXCEPT ![t].pc = "hung"]
    /\ emits' = <<>>
    /\ lastOp' = NoOp
    /\ UNCHANGED <<watchedSymbols, alertVars, priceHistory, lifeVars, now, starts,
                   backfills, indTick>>

\* the steps that resume the run t when what it awaits has settled
RunResumes(t) ==
    \/ \E snapshot \in LifecycleSnapshots : PricesReturn(t, snapshot)
    \/ \E fetched \in LifecycleCandles : CandleReturn(t, fetched)
    \/ \E snapshot \in LifecycleSnapshots : ArbitrageReturn(t, snapshot)

NextTimeout ==
    \/ \E t \in Ticks : TickStart(t, "cron")
    \/ \E t \in Ticks : TickerHangs(t)
    \/ \E t \in Ticks : RunResumes(t)

\* the event loop resumes a run whenever what it awaits has settled
SpecTimeout == Init /\ [][NextTimeout]_vars /\ \A t \in Ticks : WF_vars(RunResumes(t))

\* C12: every started updatePrices run completes, also when a ticker fetch
\* never returns.
C12_TickCompletes ==
    \A t \in Ticks : (ticks[t].pc # "idle") ~> (ticks[t].pc = "idle")

(***************************************************************************)
(* Claims about the price_update payload                                   *)
(***************************************************************************)
\* the exchanges whose quote the run holds for the symbol
QuotedExchanges(updates, symbol) ==
    IF MapHas(updates, symbol)
    THEN {e \in DOMAIN updates[symbol] : ~IsNull(updates[symbol][e])}
    ELSE {}

\* C13: a ticker that succeeded is held as its quote and one that failed as
\* null, and the prices of a price_update hold, for each symbol, exactly the
\* quotes of the exchanges that succeeded in that run: no null entry, and no
\* symbol without a quote.
C13_PayloadOnlySuccessfulQuotes ==
    [][/\ lastOp'.op = "getMultiExchangePrices" =>
             \A e \in Exchanges :
                 LET held == ticks'[lastOp'.run].updates[lastOp'.symbol][e]
                 IN IF lastOp'.tickers[e].ok
                    THEN held = Quote(lastOp'.tickers[e].last)
                    ELSE IsNull(held)
       /\ \A t \in Ticks :
             LeavesSymbolLoop(t) =>
                 LET payload == PriceUpdates(emits')[1].prices
                     updates == ticks[t].updates
                 IN /\ DOMAIN payload =
                          {s \in AllSymbols : QuotedExchanges(updates, s) # {}}
                    /\ \A s \in DOMAIN payload :
                          /\ DOMAIN payload[s] = QuotedExchanges(updates, s)
                          /\ \A e \in DOMAIN payload[s] :
                                 /\ ~IsNull(payload[s][e])
                                 /\ payload[s][e] = updates[s][e]]_vars

\* C13 witness: a price_update of a run over two symbols that holds the first
\* symbol with the quote of binance alone and does not hold the second.
C13_Witness ==
    /\ Len(watchedSymbols) = 2
    /\ Len(PriceUpdates(emits)) = 1
    /\ LET payload == PriceUpdates(emits)[1].prices
       IN /\ DOMAIN payload = {watchedSymbols[1]}
          /\ DOMAIN payload[watchedSymbols[1]] = {"binance"}

(***************************************************************************)
(* The arbitrage scan from the outcome of each ticker                      *)
(***************************************************************************)
\* calculateArbitrageOpportunities(symbol) returns: its own
\* getMultiExchangePrices has settled every ticker
ArbitrageScanReturn(t, tickers) ==
    /\ ticks[t].pc = "arb"
    /\ LET tk == ticks[t]
           snapshot == GetMultiExchangePrices(tickers)
           found == CalculateArbitrageOpportunities(tk.sym, snapshot)
           opps == tk.opps \o found
       IN /\ IF tk.i < Len(watchedSymbols)
             THEN /\ ticks' = [ticks EXCEPT ![t].i = tk.i + 1,
                                            ![t].sym = watchedSymbols[tk.i + 1],
                                            ![t].opps = opps]
                  /\ emits' = <<>>
             ELSE /\ ticks' = [ticks EXCEPT ![t] = IdleTick]
                  /\ emits' = ArbitrageEvents(opps)
          /\ lastOp' = [op |-> "calculateArbitrageOpportunities", symbol |-> tk.sym,
                        tickers |-> tickers, found |-> found]
    /\ UNCHANGED <<watchedSymbols, alertVars, priceHistory, lifeVars, now, starts,
                   backfills, indTick>>

\* prices whose spreads lie on both sides of the thresholds: 1000 and 1003 differ
\* by 0.2995 %, 1003 and 1010 by 0.695 %, 1000 and 1010 by 0.995 %
SpreadLasts == {1000, 1003, 1010}
SpreadOutcomes == {TickerFailed} \cup {TickerOk(last) : last \in SpreadLasts}
SpreadResults == [Exchanges -> SpreadOutcomes]

\* one run of updatePrices over one or two watched symbols, its quotes left out
NextArbitrage ==
    \/ \E s \in AllSymbols : addWatchedSymbol(s)
    \/ \E b \in Backfills : AddBackfillReturn(b, FetchFailed)
    \/ TickStart(1, "cron")
    \/ PricesReturn(1, NoQuotes)
    \/ CandleReturn(1, FetchFailed)
    \/ \E tickers \in SpreadResults : ArbitrageScanReturn(1, tickers)

SpecArbitrage == Init /\ [][NextArbitrage]_vars

(***************************************************************************)
(* Claims about the arbitrage scan                                         *)
(***************************************************************************)
\* tradingConfig.arbitrage.minProfitPercentage, in thousandths of a percent
MinProfitPercentageMilli == 500
\* |p1 - p2| / ((p1 + p2) / 2) * 100 > milli / 1000
SpreadAbove(p1, p2, milli) ==
    LET diff == IF p1 > p2 THEN p1 - p2 ELSE p2 - p1
    IN p1 + p2 > 0 /\ diff * 200000 > milli * (p1 + p2)
\* the opportunities found between the two exchanges
FoundBetween(found, e1, e2) ==
    SelectSeq(found, LAMBDA o : {o.buyExchange, o.sellExchange} = {e1, e2})

\* C14: the scan of one symbol finds one opportunity for each pair of quoted
\* exchanges whose spread is above the configured minProfitPercentage and none
\* for any other pair, and each opportunity buys at the cheaper exchange.
C14_OpportunityIffAboveMinProfit ==
    [][lastOp'.op = "calculateArbitrageOpportunities" =>
          LET tickers == lastOp'.tickers
              found == lastOp'.found
          IN /\ \A e1, e2 \in Exchanges :
                   e1 # e2 =>
                      Len(FoundBetween(found, e1, e2)) =
                          IF /\ tickers[e1].ok
                             /\ tickers[e2].ok
                             /\ SpreadAbove(tickers[e1].last, tickers[e2].last,
                                            MinProfitPercentageMilli)
                          THEN 1 ELSE 0
             /\ \A k \in 1..Len(found) :
                   /\ found[k].buyPrice < found[k].sellPrice
                   /\ found[k].buyExchange # found[k].sellExchange
                   /\ tickers[found[k].buyExchange].ok
                   /\ tickers[found[k].sellExchange].ok
                   /\ tickers[found[k].buyExchange].last = found[k].buyPrice
                   /\ tickers[found[k].sellExchange].last = found[k].sellPrice]_vars

\* tradingConfig.arbitrage.maxOpportunities
MaxOpportunities == 20
\* the arbitrage_opportunities events among the events of a step
ArbitrageUpdates(ev) == SelectSeq(ev, LAMBDA e : e.event = "arbitrage_opportunities")
\* the run t ends in the step being taken, with the scan of its last symbol
EndsScan(t) ==
    /\ ticks[t].pc = "arb"
    /\ ticks'[t].pc = "idle"
    /\ lastOp'.op = "calculateArbitrageOpportunities"

\* C15: the opportunities of an arbitrage_opportunities event are in descending
\* order of percentage and are the highest of all those the run found over the
\* watched symbols, up to the configured maximum count.
C15_HighestOpportunitiesDescending ==
    [][\A t \in Ticks :
          EndsScan(t) =>
              LET all == ticks[t].opps \o lastOp'.found
              IN \A k \in 1..Len(ArbitrageUpdates(emits')) :
                    LET list == ArbitrageUpdates(emits')[k].opportunities
                    IN /\ \A a, b \in 1..Len(list) :
                             a < b => list[a].percentage >= list[b].percentage
                       /\ Len(list) = Min(Len(all), MaxOpportunities)
                       /\ SeqToSet(list) \subseteq SeqToSet(all)
                       /\ \A o \in SeqToSet(all) \ SeqToSet(list) :
                             \A x \in SeqToSet(list) : o.percentage <= x.percentage]_vars

(***************************************************************************)
(* The indicator cron job beside a changing watch list                     *)
(***************************************************************************)
NextIndicators ==
    \/ IndicatorStart
    \/ \E outcome \in {"candles", "none"} : IndicatorReturn(outcome)
    \/ \E s \in AllSymbols : addWatchedSymbol(s)
    \/ \E b \in Backfills, fetched \in LifecycleBackfills : AddBackfillReturn(b, fetched)
    \/ \E s \in AllSymbols : removeWatchedSymbol(s)

SpecIndicators == Init /\ [][NextIndicators]_vars

\* the indicators_update events among the events of a step
IndicatorUpdates(ev) == SelectSeq(ev, LAMBDA e : e.event = "indicators_update")

\* C16: an indicator tick emits indicators_update for the symbols that are
\* watched at that time and for no other symbol.
C16_IndicatorsOnlyForWatched ==
    [][\A k \in 1..Len(IndicatorUpdates(emits')) :
          IndicatorUpdates(emits')[k].symbol \in SeqToSet(watchedSymbols)]_vars

(***************************************************************************)
(* PriceMonitor.detectPriceAnomalies                                       *)
(***************************************************************************)
\* the number of closes detectPriceAnomalies looks at; stands for the 20 of
\* PriceMonitor.ts:336-340
AnomalyWindow == 3

RECURSIVE SumSeq(_)
SumSeq(xs) == IF xs = <<>> THEN 0 ELSE Head(xs) + SumSeq(Tail(xs))
ClosesOf(history) == [k \in 1..Len(history) |-> history[k].close]
SquaresOf(xs) == [k \in 1..Len(xs) |-> xs[k] * xs[k]]

\* With n previous prices of sum S and sum of squares Q, avgPrice = S / n and
\* variance = (n * Q - S * S) / n^2, so that (currentPrice - avgPrice) / stdDev
\* = dev / sqrt(spread) with dev = n * currentPrice - S and spread = n * Q - S * S.
Deviation(previousPrices, currentPrice) ==
    Len(previousPrices) * currentPrice - SumSeq(previousPrices)
Spread(previousPrices) ==
    Len(previousPrices) * SumSeq(SquaresOf(previousPrices))
        - SumSeq(previousPrices) * SumSeq(previousPrices)

ZScoreExceedsGuarded(dev, spread, limit) ==
    spread # 0 /\ dev * dev > limit * limit * spread
\* zScore > limit, with zScore = Math.abs(dev / sqrt(spread)): a division by
\* zero gives Infinity, which is above every limit, and 0 / 0 gives NaN, which
\* is above none
ZScoreExceeds(dev, spread, limit) ==
    IF spread = 0 THEN dev # 0 ELSE dev * dev > limit * limit * spread

\* parseFloat(zScore.toFixed(2)): Infinity, NaN, or a number kept in hundredths
ZScoreFixed(dev, spread) ==
    IF spread = 0
    THEN IF dev = 0 THEN [kind |-> "NaN"] ELSE [kind |-> "Infinity"]
    ELSE LET mag == IF dev < 0 THEN -dev ELSE dev
         IN [kind |-> "finite",
             centi |-> CHOOSE k \in 0..(100 * mag) :
                 /\ k = 0 \/ (2 * k - 1) * (2 * k - 1) * spread <= 40000 * mag * mag
                 /\ 40000 * mag * mag < (2 * k + 1) * (2 * k + 1) * spread]

NoAnomaly == [anomaly |-> FALSE]

\* what detectPriceAnomalies returns for the stored series of the symbol
DetectAnomaly(hist, symbol, threshold) ==
    IF ~MapHas(hist, symbol) \/ Len(hist[symbol]) < AnomalyWindow
    THEN NoAnomaly
    ELSE LET recentPrices == ClosesOf(SliceLast(hist[symbol], AnomalyWindow))
             currentPrice == Last(recentPrices)
             previousPrices == SubSeq(recentPrices, 1, Len(recentPrices) - 1)
             dev == Deviation(previousPrices, currentPrice)
             spread == Spread(previousPrices)
         IN IF ZScoreExceeds(dev, spread, threshold)
            THEN [anomaly |-> TRUE, symbol |-> symbol, currentPrice |-> currentPrice,
                  zScore |-> ZScoreFixed(dev, spread), threshold |-> threshold,
                  type |-> IF dev > 0 THEN "SPIKE" ELSE "DROP",
                  severity |-> IF ZScoreExceeds(dev, spread, threshold * 2)
                               THEN "HIGH" ELSE "MEDIUM"]
            ELSE NoAnomaly

\* detectPriceAnomalies(symbol, threshold) is called
detectPriceAnomalies(symbol, threshold) ==
    /\ LET found == DetectAnomaly(priceHistory, symbol, threshold)
       IN /\ emits' = IF found.anomaly
                      THEN <<[event |-> "price_anomaly", anomaly |-> found]>>
                      ELSE <<>>
          /\ lastOp' = [op |-> "detectPriceAnomalies", symbol |-> symbol,
                        threshold |-> threshold, found |-> found]
    /\ UNCHANGED <<watchedSymbols, alertVars, priceHistory, lifeVars, now, ticks,
                   starts, backfills, indTick>>

(***************************************************************************)
(* Anomaly detection beside a run that updates the series                  *)
(***************************************************************************)
\* closes that give zero and non-zero deviations on both sides of the mean
AnomalyCloses == {1, 2, 3, 9}
\* a backfill of one candle less than the window, oldest first
AnomalyBackfills ==
    {FetchOk([k \in 1..(AnomalyWindow - 1) |-> Candle(k, closes[k])]) :
        closes \in [1..(AnomalyWindow - 1) -> AnomalyCloses]}
\* the candle that follows the backfill
AnomalyCandles == {FetchOk(<<Candle(AnomalyWindow, close)>>) : close \in AnomalyCloses}
\* the default threshold of detectPriceAnomalies
DefaultThreshold == 5
Thresholds == {2, DefaultThreshold}

NextAnomaly ==
    \/ \E s \in SeriesSymbols : addWatchedSymbol(s)
    \/ \E s \in SeriesSymbols : removeWatchedSymbol(s)
    \/ \E b \in Backfills, fetched \in AnomalyBackfills : AddBackfillReturn(b, fetched)
    \/ TickStart(1, "cron")
    \/ PricesReturn(1, NoQuotes)
    \/ \E fetched \in AnomalyCandles : CandleReturn(1, fetched)
    \/ ArbitrageReturn(1, NoQuotes)
    \/ \E s \in SeriesSymbols, threshold \in Thresholds : detectPriceAnomalies(s, threshold)

SpecAnomaly == Init /\ [][NextAnomaly]_vars

(***************************************************************************)
(* Claims about anomaly detection                                          *)
(***************************************************************************)
\* the price_anomaly events among the events of a step
AnomalyEvents(ev) == SelectSeq(ev, LAMBDA e : e.event = "price_anomaly")
\* the current close of the series lies more than threshold standard deviations
\* (not zero) from the mean of the closes before it in the window
DeviatesBeyond(series, threshold) ==
    /\ Len(series) >= AnomalyWindow
    /\ LET recent == ClosesOf(SliceLast(series, AnomalyWindow))
           previous == SubSeq(recent, 1, Len(recent) - 1)
           dev == Deviation(previous, Last(recent))
       IN /\ Spread(previous) > 0
          /\ dev * dev > threshold * threshold * Spread(previous)

\* C17: when a run has updated the series of a symbol and its current close
\* deviates beyond the threshold, the run emits a price_anomaly for the symbol.
C17_TickEmitsAnomaly ==
    [][\A t \in Ticks :
          /\ FinishesSymbol(t)
          /\ DeviatesBeyond(SeriesOf(priceHistory', ticks[t].sym), DefaultThreshold)
          => \E k \in 1..Len(AnomalyEvents(emits')) :
                 AnomalyEvents(emits')[k].anomaly.symbol = ticks[t].sym]_vars

\* the step being taken is a call of detectPriceAnomalies
DetectStep == lastOp'.op = "detectPriceAnomalies"
\* the closes of the window of the symbol's series, when it has that many
WindowCloses(hist, symbol) ==
    ClosesOf(SliceLast(SeriesOf(hist, symbol), AnomalyWindow))
\* the closes before the current one in the window are all equal
FlatBefore(closes) ==
    /\ Len(closes) = AnomalyWindow
    /\ \A k \in 1..(Len(closes) - 1) : closes[k] = closes[1]

\* C18: when the closes before the current one are all equal,
\* detectPriceAnomalies reports no anomaly and emits no price_anomaly, and no
\* outcome carries an Infinity or NaN zScore.
C18_ZeroDeviationIsNoAnomaly ==
    [][DetectStep =>
          /\ FlatBefore(WindowCloses(priceHistory, lastOp'.symbol)) =>
                /\ ~lastOp'.found.anomaly
                /\ AnomalyEvents(emits') = <<>>
          /\ lastOp'.found.anomaly => lastOp'.found.zScore.kind = "finite"]_vars

\* C19: for a series whose window is a run of equal closes followed by a
\* current close of at least twice that value, detectPriceAnomalies with
\* threshold 2 reports an anomaly of type SPIKE.
C19_JumpAfterFlatRunIsSpike ==
    [][DetectStep /\ lastOp'.threshold = 2 =>
          LET closes == WindowCloses(priceHistory, lastOp'.symbol)
          IN FlatBefore(closes) /\ Last(closes) >= 2 * closes[1] =>
                /\ lastOp'.found.anomaly
                /\ lastOp'.found.type = "SPIKE"
                /\ Len(AnomalyEvents(emits')) = 1
                /\ AnomalyEvents(emits')[1].anomaly.type = "SPIKE"]_vars

\* C19 witness: detectPriceAnomalies with threshold 2 reported a SPIKE for a
\* series that ends with a run of equal closes and a close twice as high.
C19_Witness ==
    /\ lastOp.op = "detectPriceAnomalies"
    /\ lastOp.threshold = 2
    /\ FlatBefore(WindowCloses(priceHistory, lastOp.symbol))
    /\ Last(WindowCloses(priceHistory, lastOp.symbol))
           = 2 * WindowCloses(priceHistory, lastOp.symbol)[1]
    /\ lastOp.found.anomaly
    /\ lastOp.found.type = "SPIKE"
    /\ Len(AnomalyEvents(emits)) = 1

(***************************************************************************)
(* TechnicalIndicators.generateTradingSignals                              *)
(***************************************************************************)
\* an indicator that calculateAll could not compute (an empty array)
Absent == [present |-> FALSE]
Rsi(last) == [present |-> TRUE, nan |-> FALSE, last |-> last]
\* a last element that calculateRSI computed as 0 / 0
RsiNaN == [present |-> TRUE, nan |-> TRUE, last |-> 0]
Histogram(prev, current) == [present |-> TRUE, prev |-> prev, current |-> current]
Bands(lastPrice, lower, upper) ==
    [present |-> TRUE, lastPrice |-> lastPrice, lower |-> lower, upper |-> upper]

\* the entries pushed to signals.signals, in the order of the three tests
RsiSignal(rsi) ==
    IF ~rsi.present THEN <<>>
    ELSE IF ~rsi.nan /\ rsi.last < 30 THEN <<[type |-> "RSI", signal |-> "BUY"]>>
    ELSE IF ~rsi.nan /\ rsi.last > 70 THEN <<[type |-> "RSI", signal |-> "SELL"]>>
    ELSE <<>>
MacdSignal(macd) ==
    IF ~macd.present THEN <<>>
    ELSE IF macd.current > 0 /\ macd.prev <= 0 THEN <<[type |-> "MACD", signal |-> "BUY"]>>
    ELSE IF macd.current < 0 /\ macd.prev >= 0 THEN <<[type |-> "MACD", signal |-> "SELL"]>>
    ELSE <<>>
BollingerBothSides(bollinger) ==
    IF ~bollinger.present THEN <<>>
    ELSE (IF bollinger.lastPrice <= bollinger.lower
          THEN <<[type |-> "Bollinger", signal |-> "BUY"]>> ELSE <<>>)
         \o (IF bollinger.lastPrice >= bollinger.upper
             THEN <<[type |-> "Bollinger", signal |-> "SELL"]>> ELSE <<>>)
BollingerSignal(bollinger) ==
    IF ~bollinger.present THEN <<>>
    ELSE IF bollinger.lastPrice <= bollinger.lower
    THEN <<[type |-> "Bollinger", signal |-> "BUY"]>>
    ELSE IF bollinger.lastPrice >= bollinger.upper
    THEN <<[type |-> "Bollinger", signal |-> "SELL"]>>
    ELSE <<>>
CountSignals(entries, signal) == Len(SelectSeq(entries, LAMBDA e : e.signal = signal))

\* Math.abs(bullishRatio - 0.5) * 2 as the fraction |2 b - total| / total
SignalStrength(bullishSignals, bearishSignals) ==
    LET totalSignals == bullishSignals + bearishSignals
        twice == 2 * bullishSignals - totalSignals
    IN IF totalSignals > 0
       THEN [num |-> IF twice < 0 THEN -twice ELSE twice, den |-> totalSignals]
       ELSE [num |-> 0, den |-> 1]
OverallFromHalf(bullishSignals, bearishSignals) ==
    IF bullishSignals + bearishSignals = 0 THEN "NEUTRAL"
    ELSE IF bullishSignals >= bearishSignals THEN "BULLISH"
    ELSE "BEARISH"
\* bullishRatio > 0.6, bullishRatio < 0.4
SignalOverall(bullishSignals, bearishSignals) ==
    LET totalSignals == bullishSignals + bearishSignals
    IN IF totalSignals > 0 /\ 10 * bullishSignals > 6 * totalSignals THEN "BULLISH"
       ELSE IF totalSignals > 0 /\ 10 * bullishSignals < 4 * totalSignals THEN "BEARISH"
       ELSE "NEUTRAL"

GenerateTradingSignals(rsi, macd, bollinger) ==
    LET entries == RsiSignal(rsi) \o MacdSignal(macd) \o BollingerSignal(bollinger)
        bullishSignals == CountSignals(entries, "BUY")
        bearishSignals == CountSignals(entries, "SELL")
    IN [overall |-> SignalOverall(bullishSignals, bearishSignals),
        strength |-> SignalStrength(bullishSignals, bearishSignals),
        signals |-> entries]

\* generateTradingSignals(indicators, closes) is called
generateTradingSignals(rsi, macd, bollinger) ==
    /\ lastOp' = [op |-> "generateTradingSignals", rsi |-> rsi, macd |-> macd,
                  bollinger |-> bollinger,
                  signals |-> GenerateTradingSignals(rsi, macd, bollinger)]
    /\ emits' = <<>>
    /\ UNCHANGED <<watchedSymbols, alertVars, priceHistory, lifeVars, now, ticks,
                   starts, backfills, indTick>>

\* the last RSI on both sides of 30 and 70, histograms that cross zero either
\* way or do not, a last price at, between and beyond the bands
RsiInputs == {Absent, RsiNaN} \cup {Rsi(last) : last \in {25, 30, 50, 70, 75}}
MacdInputs ==
    {Absent} \cup {Histogram(prev, current) : prev \in {-1, 0, 1}, current \in {-1, 0, 1}}
BollingerInputs ==
    {Absent} \cup {Bands(lastPrice, 2, 4) : lastPrice \in 1..5} \cup {Bands(3, 3, 3)}

NextSignals ==
    \E rsi \in RsiInputs, macd \in MacdInputs, bollinger \in BollingerInputs :
        generateTradingSignals(rsi, macd, bollinger)

SpecSignals == Init /\ [][NextSignals]_vars

(***************************************************************************)
(* Claims about the trading signal                                         *)
(***************************************************************************)
\* C20: with b BUY and s SELL votes, no vote gives NEUTRAL and strength 0;
\* otherwise strength is |b / (b + s) - 0.5| * 2, lies in [0, 1] and is 1 exactly
\* when the votes are unanimous, and overall is BULLISH when b / (b + s) > 0.6,
\* BEARISH when it is < 0.4 and NEUTRAL otherwise.
C20_VerdictFromVoteCounts ==
    lastOp.op = "generateTradingSignals" =>
        LET b == CountSignals(lastOp.signals.signals, "BUY")
            s == CountSignals(lastOp.signals.signals, "SELL")
            strength == lastOp.signals.strength
            overall == lastOp.signals.overall
        IN /\ b + s <= 3
           /\ strength.den > 0
           /\ b + s = 0 => overall = "NEUTRAL" /\ strength.num = 0
           /\ b + s > 0 =>
                 /\ strength.num * (b + s) =
                        strength.den * (IF 2 * b >= b + s THEN 2 * b - (b + s)
                                        ELSE (b + s) - 2 * b)
                 /\ 0 <= strength.num /\ strength.num <= strength.den
                 /\ strength.num = strength.den <=> (b = 0 \/ s = 0)
                 /\ overall = (IF 5 * b > 3 * (b + s) THEN "BULLISH"
                               ELSE IF 5 * b < 2 * (b + s) THEN "BEARISH"
                               ELSE "NEUTRAL")

\* C20 witness: RSI 25, a histogram crossing upward and a last price at the
\* lower band gave three BUY votes, BULLISH and strength 1.
C20_Witness ==
    /\ lastOp.op = "generateTradingSignals"
    /\ lastOp.rsi = Rsi(25)
    /\ lastOp.macd = Histogram(-1, 1)
    /\ lastOp.bollinger = Bands(2, 2, 4)
    /\ CountSignals(lastOp.signals.signals, "BUY") = 3
    /\ lastOp.signals.overall = "BULLISH"
    /\ lastOp.signals.strength.num = lastOp.signals.strength.den

\* the entries of one indicator among the components of a signal
VotesOf(entries, type) == SelectSeq(entries, LAMBDA e : e.type = type)
HasVote(entries, type, signal) ==
    \E i \in 1..Len(entries) : entries[i].type = type /\ entries[i].signal = signal

\* C21: each of RSI, MACD and Bollinger casts at most one vote: RSI BUY iff
\* the last RSI < 30 and SELL iff > 70; MACD BUY iff the histogram goes from
\* <= 0 to > 0 and SELL iff from >= 0 to < 0; Bollinger BUY iff the close <=
\* the lower band, else SELL iff the close >= the upper band; an absent
\* indicator casts no vote, and the components hold one entry per vote.
C21_OneVotePerIndicator ==
    lastOp.op = "generateTradingSignals" =>
        LET entries == lastOp.signals.signals
            rsi == lastOp.rsi
            macd == lastOp.macd
            bollinger == lastOp.bollinger
        IN /\ \A type \in {"RSI", "MACD", "Bollinger"} : Len(VotesOf(entries, type)) <= 1
           /\ \A i \in 1..Len(entries) : entries[i].type \in {"RSI", "MACD", "Bollinger"}
           /\ HasVote(entries, "RSI", "BUY") <=> (rsi.present /\ ~rsi.nan /\ rsi.last < 30)
           /\ HasVote(entries, "RSI", "SELL") <=> (rsi.present /\ ~rsi.nan /\ rsi.last > 70)
           /\ HasVote(entries, "MACD", "BUY") <=>
                  (macd.present /\ macd.prev <= 0 /\ macd.current > 0)
           /\ HasVote(entries, "MACD", "SELL") <=>
                  (macd.present /\ macd.prev >= 0 /\ macd.current < 0)
           /\ HasVote(entries, "Bollinger", "BUY") <=>
                  (bollinger.present /\ bollinger.lastPrice <= bollinger.lower)
           /\ HasVote(entries, "Bollinger", "SELL") <=>
                  (bollinger.present /\ ~(bollinger.lastPrice <= bollinger.lower)
                     /\ bollinger.lastPrice >= bollinger.upper)
           /\ Len(entries) =
                  CountSignals(entries, "BUY") + CountSignals(entries, "SELL")

\* C21 witness: no RSI and no histogram, and a last price on both bands at
\* once, gave the single vote Bollinger BUY.
C21_Witness ==
    /\ lastOp.op = "generateTradingSignals"
    /\ lastOp.rsi = Absent
    /\ lastOp.macd = Absent
    /\ lastOp.bollinger = Bands(3, 3, 3)
    /\ lastOp.signals.signals = <<[type |-> "Bollinger", signal |-> "BUY"]>>

(***************************************************************************)
(* TechnicalIndicators: the series functions                               *)
(***************************************************************************)
\* a JavaScript number: an exact quotient of two integers, NaN or an infinity
Fraction(num, den) == [kind |-> "finite", num |-> num, den |-> den]
NaN == [kind |-> "NaN"]
Infinite == [kind |-> "Infinity"]
\* num / den for integers: x / 0 is an infinity and 0 / 0 is NaN
Divide(num, den) ==
    IF den # 0 THEN Fraction(num, den) ELSE IF num = 0 THEN NaN ELSE Infinite
Numbers(data) == [k \in 1..Len(data) |-> Fraction(data[k], 1)]
\* a + b; the infinities met here have one sign
AddValue(a, b) ==
    IF a.kind = "NaN" \/ b.kind = "NaN" THEN NaN
    ELSE IF a.kind = "Infinity" \/ b.kind = "Infinity" THEN Infinite
    ELSE Fraction(a.num * b.den + b.num * a.den, a.den * b.den)
\* reduce((a, b) => a + b, 0)
RECURSIVE SumValues(_)
SumValues(values) ==
    IF values = <<>> THEN Fraction(0, 1)
    ELSE AddValue(Head(values), SumValues(Tail(values)))
\* value / period for period >= 1
DivideBy(value, period) ==
    IF value.kind = "finite" THEN Fraction(value.num, value.den * period) ELSE value

\* calculateSMA(data, period) over numbers
CalculateSMA(values, period) ==
    IF Len(values) < period THEN <<>>
    ELSE [j \in 1..(Len(values) - period + 1) |->
              DivideBy(SumValues(SubSeq(values, j, j + period - 1)), period)]

\* the loop of calculateEMA: ema[i] = data[i] * m + ema[i - 1] * (1 - m) with
\* m = 2 / (period + 1), i.e. (2 data[i] + (period - 1) ema[i - 1]) / (period + 1)
RECURSIVE EmaLoop(_, _, _)
EmaLoop(data, period, ema) ==
    IF Len(ema) >= Len(data) THEN ema
    ELSE LET prev == Last(ema)
             i == Len(ema) + 1
         IN EmaLoop(data, period,
                    Append(ema, Fraction(2 * data[i] * prev.den + (period - 1) * prev.num,
                                         prev.den * (period + 1))))
CalculateEMA(data, period) ==
    IF Len(data) < period THEN <<>>
    ELSE EmaLoop(data, period, <<Fraction(data[1], 1)>>)

\* calculateRSI: the changes, their first averages and the smoothing loop.
\* avgGain and avgLoss are kept as gains / scale and losses / scale.
Changes(data) == [k \in 1..(Len(data) - 1) |-> data[k + 1] - data[k]]
GainOf(change) == IF change > 0 THEN change ELSE 0
LossOf(change) == IF change > 0 THEN 0 ELSE -change
\* 100 - (100 / (1 + avgGain / avgLoss))
RsiValue(gains, losses) ==
    IF losses = 0
    THEN IF gains = 0 THEN NaN ELSE Fraction(100, 1)
    ELSE Fraction(100 * gains, gains + losses)
RECURSIVE RsiLoop(_, _, _, _, _, _)
RsiLoop(changes, period, i, gains, losses, scale) ==
    IF i > Len(changes) THEN <<>>
    ELSE LET g == gains * (period - 1) + GainOf(changes[i]) * scale
             l == losses * (period - 1) + LossOf(changes[i]) * scale
         IN <<RsiValue(g, l)>> \o RsiLoop(changes, period, i + 1, g, l, scale * period)
CalculateRSI(data, period) ==
    IF Len(data) < period + 1 THEN <<>>
    ELSE LET changes == Changes(data)
             first == SubSeq(changes, 1, period)
         IN RsiLoop(changes, period, period + 1,
                    SumSeq([k \in 1..period |-> GainOf(first[k])]),
                    SumSeq([k \in 1..period |-> LossOf(first[k])]), period)

\* calculateBollingerBands: mean + side * multiplier * sqrt(variance), kept as
\* the mean and the variance of the window
Band(slice, period, multiplier, side) ==
    [kind |-> "finite",
     mean |-> Fraction(SumSeq(slice), period),
     variance |-> Fraction(period * SumSeq(SquaresOf(slice)) - SumSeq(slice) * SumSeq(slice),
                           period * period),
     times |-> side * multiplier]
CalculateBollingerBands(data, period, multiplier) ==
    LET windows == IF Len(data) < period THEN 0 ELSE Len(data) - period + 1
    IN [upper |-> [j \in 1..windows |->
                       Band(SubSeq(data, j, j + period - 1), period, multiplier, 1)],
        middle |-> CalculateSMA(Numbers(data), period),
        lower |-> [j \in 1..windows |->
                       Band(SubSeq(data, j, j + period - 1), period, multiplier, -1)]]

\* Math.max(...xs), Math.min(...xs) of a non-empty array
MaxOf(xs) == CHOOSE x \in SeqToSet(xs) : \A y \in SeqToSet(xs) : y <= x
MinOf(xs) == CHOOSE x \in SeqToSet(xs) : \A y \in SeqToSet(xs) : y >= x
HighsOf(bars) == [k \in 1..Len(bars) |-> bars[k].high]
LowsOf(bars) == [k \in 1..Len(bars) |-> bars[k].low]
WindowCount(length, period) == IF length < period THEN 0 ELSE length - period + 1

\* calculateStochastic: ((close - lowestLow) / (highestHigh - lowestLow)) * 100
CalculateStochastic(bars, kPeriod, dPeriod) ==
    LET k == [j \in 1..WindowCount(Len(bars), kPeriod) |->
                  LET highestHigh == MaxOf(SubSeq(HighsOf(bars), j, j + kPeriod - 1))
                      lowestLow == MinOf(SubSeq(LowsOf(bars), j, j + kPeriod - 1))
                  IN Divide((bars[j + kPeriod - 1].close - lowestLow) * 100,
                            highestHigh - lowestLow)]
    IN [k |-> k, d |-> CalculateSMA(k, dPeriod)]

\* calculateWilliamsR: ((highestHigh - close) / (highestHigh - lowestLow)) * -100
CalculateWilliamsR(bars, period) ==
    [j \in 1..WindowCount(Len(bars), period) |->
        LET highestHigh == MaxOf(SubSeq(HighsOf(bars), j, j + period - 1))
            lowestLow == MinOf(SubSeq(LowsOf(bars), j, j + period - 1))
        IN Divide((highestHigh - bars[j + period - 1].close) * (-100),
                  highestHigh - lowestLow)]

\* calculateCCI: with T the tripled typical prices of the window and S their
\* sum, mean = S / (3 period), meanDeviation = sum |period T - S| / (3 period^2)
\* and (tp - mean) / (0.015 meanDeviation) =
\* 1000 period (period T_i - S) / (15 sum |period T - S|)
Abs(x) == IF x < 0 THEN -x ELSE x
CalculateCCI(bars, period) ==
    LET tripled == [k \in 1..Len(bars) |-> bars[k].high + bars[k].low + bars[k].close]
    IN [j \in 1..WindowCount(Len(bars), period) |->
           LET slice == SubSeq(tripled, j, j + period - 1)
               total == SumSeq(slice)
               deviations == SumSeq([k \in 1..period |-> Abs(period * slice[k] - total)])
           IN Divide(1000 * period * (period * slice[period] - total), 15 * deviations)]

\* a series function is called; nothing of the monitor changes
MonitorUntouched ==
    /\ emits' = <<>>
    /\ UNCHANGED <<watchedSymbols, alertVars, priceHistory, lifeVars, now, ticks,
                   starts, backfills, indTick>>
calculateSMA(data, period) ==
    /\ lastOp' = [op |-> "calculateSMA", length |-> Len(data), period |-> period, data |-> data,
             out |-> CalculateSMA(Numbers(data), period)]
    /\ MonitorUntouched
calculateEMA(data, period) ==
    /\ lastOp' = [op |-> "calculateEMA", length |-> Len(data), period |-> period, data |-> data,
             out |-> CalculateEMA(data, period)]
    /\ MonitorUntouched
calculateRSI(data, period) ==
    /\ lastOp' = [op |-> "calculateRSI", length |-> Len(data), period |-> period, data |-> data,
             out |-> CalculateRSI(data, period)]
    /\ MonitorUntouched
calculateBollingerBands(data, period, multiplier) ==
    /\ lastOp' = [op |-> "calculateBollingerBands", length |-> Len(data), period |-> period,
             data |-> data, out |-> CalculateBollingerBands(data, period, multiplier)]
    /\ MonitorUntouched
calculateStochastic(bars, kPeriod, dPeriod) ==
    /\ lastOp' = [op |-> "calculateStochastic", length |-> Len(bars), period |-> kPeriod,
             data |-> bars, out |-> CalculateStochastic(bars, kPeriod, dPeriod)]
    /\ MonitorUntouched
calculateWilliamsR(bars, period) ==
    /\ lastOp' = [op |-> "calculateWilliamsR", length |-> Len(bars), period |-> period,
             data |-> bars, out |-> CalculateWilliamsR(bars, period)]
    /\ MonitorUntouched
calculateCCI(bars, period) ==
    /\ lastOp' = [op |-> "calculateCCI", length |-> Len(bars), period |-> period,
             data |-> bars, out |-> CalculateCCI(bars, period)]
    /\ MonitorUntouched

\* series of up to MaxSeriesLen closes, bars of up to MaxBars candles whose
\* close lies between low and high, and windows of 2 and 3 elements
MaxSeriesLen == 4
MaxBars == 3
SeriesValues == {1, 2, 3}
SeriesInputs == UNION {[1..n -> SeriesValues] : n \in 0..MaxSeriesLen}
BarValues == {1, 2}
Bars ==
    {[high |-> h, low |-> l, close |-> c] : h \in BarValues, l \in BarValues, c \in BarValues}
ValidBars == {b \in Bars : b.low <= b.close /\ b.close <= b.high}
BarInputs == UNION {[1..n -> ValidBars] : n \in 0..MaxBars}
Periods == {2, 3}

NextSeries ==
    \/ \E data \in SeriesInputs, period \in Periods :
          \/ calculateSMA(data, period)
          \/ calculateEMA(data, period)
          \/ calculateRSI(data, period)
          \/ calculateBollingerBands(data, period, 2)
    \/ \E bars \in BarInputs, period \in Periods :
          \/ calculateStochastic(bars, period, 2)
          \/ calculateWilliamsR(bars, period)
          \/ calculateCCI(bars, period)

SpecSeries == Init /\ [][NextSeries]_vars

(***************************************************************************)
(* Claims about the series functions                                       *)
(***************************************************************************)
\* a number within [low, high]
Within(value, low, high) ==
    /\ value.kind = "finite"
    /\ value.den > 0
    /\ low * value.den <= value.num
    /\ value.num <= high * value.den
NeverFalls(data) == \A k \in 1..(Len(data) - 1) : data[k] <= data[k + 1]

\* C22: every element of calculateRSI's output lies in [0, 100], and for a
\* series that never falls (so that the average loss is 0), a constant series
\* included, every element is exactly 100 and none is NaN.
C22_RsiWithinRange ==
    lastOp.op = "calculateRSI" =>
        /\ \A k \in 1..Len(lastOp.out) : Within(lastOp.out[k], 0, 100)
        /\ NeverFalls(lastOp.data) =>
               \A k \in 1..Len(lastOp.out) : Within(lastOp.out[k], 100, 100)

AllFinite(values) == \A k \in 1..Len(values) : values[k].kind = "finite"

\* C23: in a window whose highest high equals its lowest low, and in one whose
\* typical prices have zero mean deviation, the Stochastic, Williams %R and CCI
\* outputs hold a finite value or skip the bar: no element is NaN or infinite.
C23_OscillatorsStayFinite ==
    /\ lastOp.op = "calculateStochastic" => AllFinite(lastOp.out.k) /\ AllFinite(lastOp.out.d)
    /\ lastOp.op \in {"calculateWilliamsR", "calculateCCI"} => AllFinite(lastOp.out)

\* the sequences a series function returns, one per output line
OutputsOf(op) ==
    IF op.op = "calculateBollingerBands" THEN {op.out.upper, op.out.middle, op.out.lower}
    ELSE IF op.op = "calculateStochastic" THEN {op.out.k}
    ELSE {op.out}
WindowedOps ==
    {"calculateSMA", "calculateEMA", "calculateBollingerBands", "calculateStochastic",
     "calculateWilliamsR", "calculateCCI"}
\* value = the mean of the last period elements of data
IsMeanOfLast(value, data, period) ==
    /\ value.kind = "finite"
    /\ value.num * period = SumSeq(SubSeq(data, Len(data) - period + 1, Len(data))) * value.den

\* C24: SMA, EMA, Bollinger, Stochastic %K, Williams %R and CCI return, for an
\* input of length n >= period, an output of length n - (period - 1) whose last
\* element belongs to the last input element (for SMA and the Bollinger bands:
\* the mean of the last period inputs), and an empty output for a shorter input.
C24_OutputAlignedToEnd ==
    lastOp.op \in WindowedOps =>
        /\ \A out \in OutputsOf(lastOp) :
               Len(out) = (IF lastOp.length >= lastOp.period
                           THEN lastOp.length - (lastOp.period - 1) ELSE 0)
        /\ lastOp.op = "calculateSMA" /\ lastOp.length >= lastOp.period =>
               IsMeanOfLast(Last(lastOp.out), lastOp.data, lastOp.period)
        /\ lastOp.op = "calculateBollingerBands" /\ lastOp.length >= lastOp.period =>
               /\ IsMeanOfLast(Last(lastOp.out.middle), lastOp.data, lastOp.period)
               /\ IsMeanOfLast(Last(lastOp.out.upper).mean, lastOp.data, lastOp.period)
               /\ IsMeanOfLast(Last(lastOp.out.lower).mean, lastOp.data, lastOp.period)

(***************************************************************************)
(* removePriceAlert over the lists of two symbols                          *)
(***************************************************************************)
NextRegistry ==
    \/ \E s \in AllSymbols, type \in AlertTypes, cb \in BOOLEAN : setPriceAlert(s, 1, type, cb)
    \/ \E id \in KnownIds \cup {UnknownId} : removePriceAlert(id)
    \/ ClockAdvance
    \/ TickStart(1, "cron")
    \/ \E snapshot \in BinanceSnapshots : PricesReturn(1, snapshot)
    \/ CandleReturn(1, FetchFailed)
    \/ CallbackReturn(1)
    \/ ArbitrageReturn(1, NoQuotes)

SpecRegistry == Init /\ [][NextRegistry]_vars

\* the ids of the alerts in the lists of the alert map
ActiveIds == {alertObjs[k].id : k \in StoredAlerts}
ActiveIdsNext == {alertObjs'[k].id : k \in StoredAlertsNext}
\* the list without the alerts of one id
WithoutId(arr, alertId) == SelectSeq(arr, LAMBDA k : alertObjs[k].id # alertId)

\* C25: removePriceAlert(id) returns true exactly when an active alert has the
\* id; then no active alert has the id afterwards and every other alert of
\* every symbol stays where it was, unchanged; otherwise nothing changes.
C25_RemoveDeletesOnlyThatAlert ==
    [][lastOp'.op = "removePriceAlert" =>
          LET alertId == lastOp'.alertId
          IN /\ lastOp'.returned <=> alertId \in ActiveIds
             /\ alertObjs' = alertObjs
             /\ priceAlerts' = priceAlerts
             /\ alertId \notin ActiveIdsNext
             /\ \A s \in DOMAIN priceAlerts :
                   arrays'[priceAlerts[s]] = WithoutId(arrays[priceAlerts[s]], alertId)]_vars

(***************************************************************************)
(* PriceMonitor.getPriceHistory                                            *)
(***************************************************************************)
\* Array.prototype.slice(start) for an integer start: a negative start counts
\* from the end, and -0 is 0
SliceFrom(s, start) ==
    LET from == IF start < 0 THEN Max(Len(s) + start, 0) ELSE Min(start, Len(s))
    IN SubSeq(s, from + 1, Len(s))
\* (this.priceHistory.get(symbol) || []).slice(-limit)
GetPriceHistory(hist, symbol, limit) ==
    SliceFrom(IF MapHas(hist, symbol) THEN hist[symbol] ELSE <<>>, -limit)

getPriceHistory(symbol, limit) ==
    /\ lastOp' = [op |-> "getPriceHistory", symbol |-> symbol, limit |-> limit,
                  returned |-> GetPriceHistory(priceHistory, symbol, limit)]
    /\ emits' = <<>>
    /\ UNCHANGED <<watchedSymbols, alertVars, priceHistory, lifeVars, now, ticks,
                   starts, backfills, indTick>>

\* limits from 0 to beyond the longest series
Limits == 0..(HistoryCap + 1)

NextLatest ==
    \/ TickStart(1, "cron")
    \/ PricesReturn(1, NoQuotes)
    \/ \E fetched \in LatestCandleResults : CandleReturn(1, fetched)
    \/ ArbitrageReturn(1, NoQuotes)
    \/ \E s \in AllSymbols, limit \in Limits : getPriceHistory(s, limit)

SpecLatest == Init /\ [][NextLatest]_vars

\* C26: getPriceHistory(symbol, n) returns the latest min(n, length) candles of
\* the symbol's series, oldest first, for every n >= 0, so never more than n;
\* it returns an empty list for an unknown symbol and leaves the stored series
\* as they are.
C26_LatestCandles ==
    [][lastOp'.op = "getPriceHistory" =>
          LET series == SeriesOf(priceHistory, lastOp'.symbol)
              count == Min(lastOp'.limit, Len(series))
              returned == lastOp'.returned
          IN /\ Len(returned) = count
             /\ Len(returned) <= lastOp'.limit
             /\ \A k \in 1..count : returned[k] = series[Len(series) - count + k]
             /\ ~MapHas(priceHistory, lastOp'.symbol) => returned = <<>>
             /\ priceHistory' = priceHistory]_vars

(***************************************************************************)
(* Claims about start() and stop()                                         *)
(***************************************************************************)
\* C27: over any sequence of start() and stop() calls, also ones issued while
\* a start() is awaiting the exchanges or the backfill, at most one interval
\* timer is live, a timer is live only while isRunning is true, and a start()
\* on a running monitor begins nothing.
C27_OneTimerOnlyWhileRunning ==
    /\ [](Cardinality(liveTimers) <= 1)
    /\ [](liveTimers # {} => isRunning)
    /\ [][\A p \in Starters :
             isRunning /\ starts[p].pc = "idle" => starts'[p].pc = "idle"]_vars

(***************************************************************************)
(* Claims about the alert lists under suspended checks                     *)
(***************************************************************************)
\* two overlapping updatePrices runs over a watch list that does not change
NextOverlap ==
    \/ \E s \in AlertSymbols, target \in AlertTargets, type \in AlertTypes,
          cb \in BOOLEAN : setPriceAlert(s, target, type, cb)
    \/ \E id \in KnownIds : removePriceAlert(id)
    \/ \E t \in Ticks : TickStart(t, "cron")
    \/ \E t \in Ticks, snapshot \in BinanceSnapshots : PricesReturn(t, snapshot)
    \/ \E t \in Ticks : CandleReturn(t, FetchFailed)
    \/ \E t \in Ticks : CallbackReturn(t)
    \/ \E t \in Ticks : ArbitrageReturn(t, NoQuotes)
    \/ ClockAdvance

SpecOverlap == Init /\ [][NextOverlap]_vars

\* C28: access to the alert lists is serialized for every interleaving of
\* setPriceAlert / removePriceAlert with checkPriceAlerts calls suspended on a
\* callback: an alert leaves the active set only when it has fired, when
\* removePriceAlert removes its id or when its symbol is unwatched, and an alert
\* that is out of the active set (a removed one in particular) never enters it
\* again: only the setPriceAlert that creates an alert adds it.
C28_AlertListSerialized ==
    [][/\ \A k \in StoredAlerts \ StoredAlertsNext :
             \/ alertObjs'[k].triggered
             \/ lastOp'.op = "removePriceAlert" /\ lastOp'.alertId = alertObjs[k].id
             \/ alertObjs[k].symbol \in SeqToSet(watchedSymbols) \ SeqToSet(watchedSymbols')
       /\ \A k \in StoredAlertsNext \ StoredAlerts :
             /\ Len(alertObjs') = Len(alertObjs) + 1
             /\ k = Len(alertObjs')]_vars

(***************************************************************************)
(* Claims about the entries of an unwatched symbol                         *)
(***************************************************************************)
Unwatched(symbol) ==
    symbol \notin SeqToSet(watchedSymbols) /\ symbol \notin SeqToSet(watchedSymbols')

\* C29: once removeWatchedSymbol(s) has returned and until s is added again,
\* no suspended updatePriceHistory, checkPriceAlerts or initializePriceHistory
\* puts an entry for s into the history map or the alert map: for an unwatched
\* symbol only a setPriceAlert call creates an entry.
C29_NoEntryForUnwatchedSymbol ==
    [][\A s \in AllSymbols :
          Unwatched(s) =>
             /\ MapHas(priceHistory', s) => MapHas(priceHistory, s)
             /\ MapHas(priceAlerts', s) =>
                    \/ MapHas(priceAlerts, s)
                    \/ Len(alertObjs') = Len(alertObjs) + 1]_vars

(***************************************************************************)
(* Claims about alert ids                                                  *)
(***************************************************************************)
\* C30: no two alerts that are active at the same time share an id, two
\* alerts set with the same symbol, type and target price at the same clock
\* reading included, so that an id refers to exactly one active alert.
C30_ActiveIdsUnique ==
    \A a, b \in StoredAlerts : alertObjs[a].id = alertObjs[b].id => a = b

====
